---- MODULE Spec2Model ----
(***************************************************************************)
(* Quantum language: tree-walking interpreter (src/src/Interpreter.cpp),   *)
(* its value and environment model (src/src/Value.cpp, include/Value.h)    *)
(* and the error classes (include/Error.h).                                *)
(*                                                                         *)
(* The C++ interpreter is a set of mutually recursive functions; C++       *)
(* exceptions carry both runtime errors and the Return / Break / Continue  *)
(* signals.  Here every C++ activation that has a try/catch or that holds  *)
(* state across a nested call is a frame on `stack`, and a thrown C++      *)
(* exception is the value of `mode` while frames are popped one at a time. *)
(***************************************************************************)
EXTENDS Integers, Sequences, FiniteSets, TLC

VARIABLES
    prog,    \* the AST handed to Interpreter::execute (root BlockStmt)
    stack,   \* C++ activations, innermost last
    env,     \* Interpreter::env (index into envs)
    envs,    \* every Environment object allocated so far
    heap,    \* backing stores of arrays, dicts and instances (shared_ptr targets)
    funcs,   \* QuantumFunction objects
    mode,    \* normal execution, or the C++ exception in flight
    acc,     \* value returned by the last evaluate()/call
    out,     \* lines written to std::cout
    log,     \* history of completed activations (try statements, calls, loops)
    status,  \* "init" before execute(), "running", "done" once it has returned or thrown
    eop      \* last Environment operation and its result (Environment harness)

vars == <<prog, stack, env, envs, heap, funcs, mode, acc, out, log, status, eop>>

\* ───────────────────────── QuantumValue ─────────────────────────────────────

Nil == [t |-> "nil", n |-> 0, s |-> ""]
Num(i) == [t |-> "number", n |-> i, s |-> ""]
Str(x) == [t |-> "string", n |-> 0, s |-> x]
Bool(b) == [t |-> "bool", n |-> IF b THEN 1 ELSE 0, s |-> ""]
ArrV(r) == [t |-> "array", n |-> r, s |-> ""]
DictV(r) == [t |-> "dict", n |-> r, s |-> ""]
FnV(r) == [t |-> "function", n |-> r, s |-> ""]
NativeV(name) == [t |-> "native", n |-> 0, s |-> name]
InstV(r) == [t |-> "instance", n |-> r, s |-> ""]
ClassV(r) == [t |-> "class", n |-> r, s |-> ""]

isFunction(v) == v.t \in {"function", "native"}

\* A number is a double; the model holds the rational n/q in lowest terms
\* with q > 0, the field q being left out of an integer.
den(v) == IF "q" \in DOMAIN v THEN v.q ELSE 1
Abs(i) == IF i < 0 THEN -i ELSE i
RECURSIVE gcd(_, _)
gcd(a, b) == IF b = 0 THEN a ELSE gcd(b, a % b)
Rat(a, b) ==
    LET g == gcd(Abs(a), Abs(b))
        p == (IF b < 0 THEN -a ELSE a) \div g
    IN IF Abs(b) = g THEN Num(p)
       ELSE [t |-> "number", n |-> p, s |-> "", q |-> Abs(b) \div g]
\* (long long) and (int) of a double: truncation towards zero
trunc(v) == IF v.n >= 0 THEN v.n \div den(v) ELSE -((-v.n) \div den(v))
\* std::floor
floor(v) == v.n \div den(v)
numAdd(a, b) == Rat(a.n * den(b) + b.n * den(a), den(a) * den(b))
numSub(a, b) == Rat(a.n * den(b) - b.n * den(a), den(a) * den(b))
numMul(a, b) == Rat(a.n * b.n, den(a) * den(b))
\* a / b for b # 0
numDiv(a, b) == Rat(a.n * den(b), den(a) * b.n)
numLess(a, b) == a.n * den(b) < b.n * den(a)
\* long long a % b for b # 0: the remainder has the sign of a
llRem(a, b) == a - b * (IF (a >= 0) = (b > 0) THEN Abs(a) \div Abs(b)
                        ELSE -(Abs(a) \div Abs(b)))

RECURSIVE fracDigits(_, _, _)
\* the first n decimals of r/q, 0 <= r < q
fracDigits(r, q, n) ==
    IF n = 0 THEN <<>> ELSE <<(10 * r) \div q>> \o fracDigits((10 * r) % q, q, n - 1)
RECURSIVE leadingZeros(_)
leadingZeros(ds) == IF ds = <<>> \/ ds[1] # 0 THEN 0 ELSE 1 + leadingZeros(Tail(ds))
RECURSIVE roundUp(_)
\* one unit added in the last place: the digits and the carry out of them
roundUp(ds) ==
    IF ds = <<>> THEN [ds |-> <<>>, carry |-> 1]
    ELSE LET r == roundUp(Tail(ds))
             d == ds[1] + r.carry
         IN [ds |-> <<d % 10>> \o r.ds, carry |-> d \div 10]
RECURSIVE stripZeros(_)
stripZeros(ds) ==
    IF ds # <<>> /\ ds[Len(ds)] = 0 THEN stripZeros(SubSeq(ds, 1, Len(ds) - 1)) ELSE ds
RECURSIVE digitString(_)
digitString(ds) == IF ds = <<>> THEN "" ELSE ToString(ds[1]) \o digitString(Tail(ds))
\* oss << std::setprecision(10) << v for a v that is no integer and is written
\* in fixed notation (0.0001 <= |v| < 1e10): ten significant digits, rounded,
\* trailing zeros dropped
Precision == 10
formatDouble(v) ==
    LET a == Abs(v.n)
        whole == a \div v.q
        zeros == leadingZeros(fracDigits(a % v.q, v.q, Precision))
        keep == IF whole > 0 THEN Precision - Len(ToString(whole)) ELSE Precision + zeros
        ds == fracDigits(a % v.q, v.q, keep + 1)
        up == IF ds[keep + 1] >= 5 THEN roundUp(SubSeq(ds, 1, keep))
              ELSE [ds |-> SubSeq(ds, 1, keep), carry |-> 0]
        frac == stripZeros(up.ds)
    IN (IF v.n < 0 THEN "-" ELSE "") \o ToString(whole + up.carry) \o
       (IF frac = <<>> THEN "" ELSE "." \o digitString(frac))

\* Backing stores (shared_ptr targets): a holds an Array's elements; d a Dict's
\* map, a QuantumInstance's fields or a QuantumClass's methods; k is an
\* instance's klass or a class's base (0 is a null pointer); name a class's name.
EmptyMap == [x \in {} |-> Nil]
ArrObj(a) == [t |-> "array", a |-> a, d |-> EmptyMap, k |-> 0, name |-> ""]
DictObj(d) == [t |-> "dict", a |-> <<>>, d |-> d, k |-> 0, name |-> ""]
InstObj(klass) == [t |-> "instance", a |-> <<>>, d |-> EmptyMap, k |-> klass, name |-> ""]
ClassObj(name, base, methods) ==
    [t |-> "class", a |-> <<>>, d |-> methods, k |-> base, name |-> name]

isTruthy(h, v) ==
    CASE v.t = "nil" -> FALSE
      [] v.t = "bool" -> v.n = 1
      [] v.t = "number" -> v.n # 0
      [] v.t = "string" -> v.s # ""
      [] v.t = "array" -> h[v.n].a # <<>>
      [] OTHER -> TRUE

RECURSIVE JoinElems(_, _, _, _)
RECURSIVE toString(_, _, _)
\* QuantumValue::toString; fs is the function table, h the heap.
toString(h, fs, v) ==
    CASE v.t = "nil" -> "nil"
      [] v.t = "bool" -> IF v.n = 1 THEN "true" ELSE "false"
      [] v.t = "number" -> IF den(v) = 1 THEN ToString(v.n) ELSE formatDouble(v)
      [] v.t = "string" -> v.s
      [] v.t = "array" -> "[" \o JoinElems(h, fs, h[v.n].a, 1) \o "]"
      [] v.t = "dict" ->
            \* unordered_map iteration order is unspecified; only dicts with at
            \* most one key are stringified by the programs below
            IF DOMAIN h[v.n].d = {} THEN "{}"
            ELSE LET k == CHOOSE x \in DOMAIN h[v.n].d : TRUE
                     e == h[v.n].d[k]
                 IN "{\"" \o k \o "\": " \o
                    (IF e.t = "string" THEN "\"" \o e.s \o "\""
                     ELSE toString(h, fs, e)) \o "}"
      [] v.t = "function" -> "<fn:" \o fs[v.n].name \o ">"
      [] v.t = "native" -> "<native:" \o v.s \o ">"
      [] v.t = "instance" -> "<instance:" \o h[h[v.n].k].name \o ">"
      [] v.t = "class" -> "<class:" \o h[v.n].name \o ">"
      [] OTHER -> "?"

JoinElems(h, fs, a, i) ==
    IF i > Len(a) THEN ""
    ELSE (IF i > 1 THEN ", " ELSE "") \o
         (IF a[i].t = "string" THEN "\"" \o a[i].s \o "\""
          ELSE toString(h, fs, a[i])) \o
         JoinElems(h, fs, a, i + 1)

typeName(h, v) == IF v.t = "instance" THEN h[h[v.n].k].name ELSE v.t

\* std::stoi on the strings used as indices: a single decimal digit
Digits == <<"0", "1", "2", "3", "4", "5", "6", "7", "8", "9">>
IsDigit(str) == \E i \in DOMAIN Digits : Digits[i] = str
stoi(str) == (CHOOSE i \in DOMAIN Digits : Digits[i] = str) - 1

\* only the class itself is searched
findMethodOwn(h, klass, name) ==
    IF klass # 0 /\ name \in DOMAIN h[klass].d THEN h[klass].d[name] ELSE Nil

RECURSIVE findMethod(_, _, _)
\* the walk up the class chain: while (k) { find; k = k->base }
findMethod(h, klass, name) ==
    IF klass = 0 THEN Nil
    ELSE IF name \in DOMAIN h[klass].d THEN h[klass].d[name]
    ELSE findMethod(h, h[klass].k, name)

\* ───────────────────────── Environment ──────────────────────────────────────
\* An Environment object: parent is an index into the table of environments
\* (0 is nullptr), vars the name -> value map, constants the const-flag set.

NewEnv(p) == [parent |-> p, vars |-> EmptyMap, constants |-> {}]

\* Environment::define: vars[name] = val; if (isConst) constants[name] = true
Environment_define(es, e, name, val, isConst) ==
    [es EXCEPT ![e] =
        [parent |-> @.parent,
         vars |-> [x \in (DOMAIN @.vars) \cup {name} |->
                      IF x = name THEN val ELSE @.vars[x]],
         constants |-> IF isConst THEN @.constants \cup {name} ELSE @.constants]]

Ok(v) == [ok |-> TRUE, v |-> v, kind |-> "", msg |-> ""]
Fail(kind, msg) == [ok |-> FALSE, v |-> Nil, kind |-> kind, msg |-> msg]

RECURSIVE Environment_get(_, _, _)
Environment_get(es, e, name) ==
    IF name \in DOMAIN es[e].vars THEN Ok(es[e].vars[name])
    ELSE IF es[e].parent # 0 THEN Environment_get(es, es[e].parent, name)
    ELSE Fail("NameError", "Undefined variable: '" \o name \o "'")

\* a has() that looks at the local scope only
Environment_hasLocal(es, e, name) == name \in DOMAIN es[e].vars

RECURSIVE Environment_has(_, _, _)
Environment_has(es, e, name) ==
    IF name \in DOMAIN es[e].vars THEN TRUE
    ELSE IF es[e].parent # 0 THEN Environment_has(es, es[e].parent, name)
    ELSE FALSE

\* Environment::set: result carries the new table of environments in es.
SetOk(es) == [ok |-> TRUE, es |-> es, kind |-> "", msg |-> ""]
SetFail(es, kind, msg) == [ok |-> FALSE, es |-> es, kind |-> kind, msg |-> msg]

\* a set that never looks past the local scope
Environment_setLocal(es, e, name, val) ==
    IF name \in DOMAIN es[e].vars THEN
        IF name \in es[e].constants
        THEN SetFail(es, "RuntimeError", "Cannot reassign constant '" \o name \o "'")
        ELSE SetOk([es EXCEPT ![e].vars[name] = val])
    ELSE SetFail(es, "NameError", "Undefined variable: '" \o name \o "'")

RECURSIVE Environment_set(_, _, _, _)
Environment_set(es, e, name, val) ==
    IF name \in DOMAIN es[e].vars THEN
        IF name \in es[e].constants
        THEN SetFail(es, "RuntimeError", "Cannot reassign constant '" \o name \o "'")
        ELSE SetOk([es EXCEPT ![e].vars[name] = val])
    ELSE IF es[e].parent # 0 THEN Environment_set(es, es[e].parent, name, val)
    ELSE SetFail(es, "NameError", "Undefined variable: '" \o name \o "'")

\* ───────────────────────── AST (include/AST.h) ─────────────────────────────
\* A node is a record tagged by k with the fields of its struct; Null is a
\* null ASTNodePtr.  line is ASTNode::line and identifies try statements.

Null == [k |-> "null"]
Opt(node) == IF node = Null THEN <<>> ELSE <<node>>
Lit(v) == [k |-> "Literal", value |-> v]
Id(name) == [k |-> "Identifier", name |-> name]
IndexExpr(object, index) == [k |-> "IndexExpr", object |-> object, index |-> index]
MemberExpr(object, member) == [k |-> "MemberExpr", object |-> object, member |-> member]
ArrayLiteral(elements) == [k |-> "ArrayLiteral", elements |-> elements]
DictLiteral(pairs) == [k |-> "DictLiteral", pairs |-> pairs]
LambdaExpr(params, body) == [k |-> "LambdaExpr", params |-> params, body |-> body]
BinaryExpr(op, left, right) == [k |-> "BinaryExpr", op |-> op, left |-> left, right |-> right]
\* super (method = "") and super.method as the callee of a call
SuperExpr(method) == [k |-> "SuperExpr", method |-> method]
CallExpr(callee, args) == [k |-> "CallExpr", callee |-> callee, args |-> args]
ListComp(expr, lvars, iterable, condition) ==
    [k |-> "ListComp", expr |-> expr, vars |-> lvars, iterable |-> iterable,
     condition |-> condition]
AssignExpr(op, target, value) ==
    [k |-> "AssignExpr", op |-> op, target |-> target, value |-> value]

BlockStmt(statements) == [k |-> "BlockStmt", statements |-> statements]
VarDecl(isConst, name, initializer) ==
    [k |-> "VarDecl", isConst |-> isConst, name |-> name, initializer |-> initializer]
FunctionDecl(name, params, body) ==
    [k |-> "FunctionDecl", name |-> name, params |-> params, body |-> body]
ReturnStmt(value) == [k |-> "ReturnStmt", value |-> value]
IfStmt(condition, thenBranch, elseBranch) ==
    [k |-> "IfStmt", condition |-> condition, thenBranch |-> thenBranch,
     elseBranch |-> elseBranch]
WhileStmt(condition, body) == [k |-> "WhileStmt", condition |-> condition, body |-> body]
ForStmt(var, var2, iterable, body) ==
    [k |-> "ForStmt", var |-> var, var2 |-> var2, iterable |-> iterable, body |-> body]
ExprStmt(expr) == [k |-> "ExprStmt", expr |-> expr]
PrintStmt(arg) == [k |-> "PrintStmt", value |-> arg]
ClassDecl(name, base, methods) ==
    [k |-> "ClassDecl", name |-> name, base |-> base, methods |-> methods]
BreakStmt == [k |-> "BreakStmt"]
ContinueStmt == [k |-> "ContinueStmt"]
RaiseStmt(value) == [k |-> "RaiseStmt", value |-> value]
ExceptClause(errorType, alias, body) ==
    [errorType |-> errorType, alias |-> alias, body |-> body]
TryStmt(body, handlers, finallyBody, line) ==
    [k |-> "TryStmt", body |-> body, handlers |-> handlers,
     finallyBody |-> finallyBody, line |-> line]

\* ───────────────────────── C++ exceptions in flight ────────────────────────

Normal == [t |-> "normal", v |-> Nil, kind |-> "", msg |-> ""]
ReturnSignal(v) == [t |-> "return", v |-> v, kind |-> "", msg |-> ""]
BreakSignal == [t |-> "break", v |-> Nil, kind |-> "", msg |-> ""]
ContinueSignal == [t |-> "continue", v |-> Nil, kind |-> "", msg |-> ""]
\* QuantumError(kind, msg) and its subclasses RuntimeError, TypeError, ...
QuantumError(kind, msg) == [t |-> "error", v |-> Nil, kind |-> kind, msg |-> msg]
\* any other std::exception (what() is msg)
StdException(msg) == [t |-> "stdexception", v |-> Nil, kind |-> "", msg |-> msg]

\* the exception an evaluation ended with: std::get on a variant holding
\* another alternative throws std::bad_variant_access, which is no QuantumError
BadAccess == "bad_variant_access"
Thrown(kind, msg) == IF kind = BadAccess THEN StdException(msg) ELSE QuantumError(kind, msg)

IsSignal(m) == m.t \in {"return", "break", "continue"}
IsError(m) == m.t \in {"error", "stdexception"}

\* ───────────────────────── simple expressions ──────────────────────────────
\* evaluate() for the expression kinds that neither run interpreted code nor
\* assign: literals, identifiers, index and member reads, array and dict
\* literals.  The result carries the heap and function table.

Res(v, h, fs) == [ok |-> TRUE, v |-> v, kind |-> "", msg |-> "", h |-> h, fs |-> fs]
Err(kind, msg, h, fs) == [ok |-> FALSE, v |-> Nil, kind |-> kind, msg |-> msg, h |-> h, fs |-> fs]

\* auto v = ...; the code after the initialisation is G
Bind(v, G(_)) == G(v)

\* a negative index is taken as it is
wrapIndexNone(i, n) == i

\* if (i < 0) i += size
wrapIndex(i, n) == IF i < 0 THEN i + n ELSE i

\* evalIndex on already evaluated operands
evalIndex(h, fs, obj, idx) ==
    CASE obj.t = "array" ->
            IF ~(idx.t = "number" \/ (idx.t = "string" /\ IsDigit(idx.s)))
            THEN Err("TypeError", "Expected number in index, got " \o typeName(h, idx), h, fs)
            ELSE LET n == Len(h[obj.n].a)
                     i == wrapIndex(IF idx.t = "number" THEN trunc(idx) ELSE stoi(idx.s), n)
                 IN IF i < 0 \/ i >= n
                    THEN Err("IndexError", "Array index " \o ToString(i) \o " out of range", h, fs)
                    ELSE Res(h[obj.n].a[i + 1], h, fs)
      [] obj.t = "dict" ->
            LET key == toString(h, fs, idx)
            IN IF key \in DOMAIN h[obj.n].d THEN Res(h[obj.n].d[key], h, fs)
               ELSE Res(Nil, h, fs)
      [] obj.t = "string" ->
            IF idx.t # "number"
            THEN Err("TypeError", "Expected number in index, got " \o typeName(h, idx), h, fs)
            ELSE LET n == Len(obj.s)
                     i == wrapIndex(trunc(idx), n)
                 IN IF i < 0 \/ i >= n
                    THEN Err("IndexError", "String index out of range", h, fs)
                    ELSE Res(Str(SubSeq(obj.s, i + 1, i + 1)), h, fs)
      [] OTHER -> Err("TypeError", "Cannot index " \o typeName(h, obj), h, fs)

\* evalMember on an already evaluated object
evalMember(h, fs, obj, member) ==
    CASE obj.t = "instance" ->
            \* QuantumInstance::getField: fields first, then the class chain
            IF member \in DOMAIN h[obj.n].d THEN Res(h[obj.n].d[member], h, fs)
            ELSE IF findMethod(h, h[obj.n].k, member) # Nil
            THEN Res(findMethod(h, h[obj.n].k, member), h, fs)
            ELSE Err("TypeError", "No member '" \o member \o "' on instance of "
                                  \o h[h[obj.n].k].name, h, fs)
      [] obj.t = "class" ->
            Err("TypeError", "No static member '" \o member \o "' on class "
                             \o h[obj.n].name, h, fs)
      [] obj.t = "dict" ->
            IF member \in DOMAIN h[obj.n].d THEN Res(h[obj.n].d[member], h, fs)
            ELSE Res(Nil, h, fs)
      [] obj.t = "string" /\ member = "length" -> Res(Num(Len(obj.s)), h, fs)
      [] obj.t = "array" /\ member = "length" -> Res(Num(Len(h[obj.n].a)), h, fs)
      [] OTHER -> Err("TypeError", "No member '" \o member \o "' on " \o typeName(h, obj), h, fs)

\* toNum(v, ctx)'s exception
notNumber(h, fs, v, ctx) ==
    Err("TypeError", "Expected number in " \o ctx \o ", got " \o typeName(h, v), h, fs)

\* the left operand is converted before the divisor is looked at
divisionOperandsLeftFirst(h, fs, op, lv, rv, d, msg) ==
    IF lv.t # "number" THEN notNumber(h, fs, lv, op)
    ELSE IF rv.t # "number" THEN notNumber(h, fs, rv, op)
    ELSE IF d = 0 THEN Err("RuntimeError", msg, h, fs)
    ELSE Res(Nil, h, fs)

\* the operand conversions of /, //, % and /=: the divisor rv is converted
\* (d is its value as the operator tests it) and compared with 0 before the
\* left operand is converted
divisionOperands(h, fs, op, lv, rv, d, msg) ==
    IF rv.t # "number" THEN notNumber(h, fs, rv, op)
    ELSE IF d = 0 THEN Err("RuntimeError", msg, h, fs)
    ELSE IF lv.t # "number" THEN notNumber(h, fs, lv, op)
    ELSE Res(Nil, h, fs)

\* evalBinary's == on evaluated operands: the accessor of the left operand's
\* alternative is applied to the right operand once the type names agree
equals(h, fs, lv, rv) ==
    IF lv.t = "nil" /\ rv.t = "nil" THEN Res(Bool(TRUE), h, fs)
    ELSE IF typeName(h, lv) # typeName(h, rv) THEN Res(Bool(FALSE), h, fs)
    ELSE IF lv.t \in {"number", "bool", "string"}
    THEN IF rv.t # lv.t THEN Err(BadAccess, "bad variant access", h, fs)
         ELSE Res(Bool(lv = rv), h, fs)
    ELSE Res(Bool(FALSE), h, fs)

\* evaluate(SliceExpr)'s applySlice for a sequence of len elements: step,
\* start and stop are the evaluated bounds, Null for one that is omitted;
\* yields <<start, stop, step>> as the loop uses them
sliceStart(len, startV, step) ==
    IF startV = Null THEN (IF step > 0 THEN 0 ELSE len - 1)
    ELSE LET a == wrapIndex(trunc(startV), len)
         IN IF a < 0 THEN 0 ELSE IF a > len THEN len ELSE a
sliceStop(len, stopV, step) ==
    IF stopV = Null THEN (IF step > 0 THEN len ELSE -1)
    ELSE LET b == wrapIndex(trunc(stopV), len)
         IN IF step > 0 THEN (IF b < 0 THEN 0 ELSE IF b > len THEN len ELSE b)
            ELSE (IF b < -1 THEN -1 ELSE b)
applySlice(h, fs, len, startV, stopV, stepV) ==
    IF stepV # Null /\ stepV.t # "number" THEN notNumber(h, fs, stepV, "slice step")
    ELSE IF startV # Null /\ startV.t # "number" THEN notNumber(h, fs, startV, "slice start")
    ELSE IF stopV # Null /\ stopV.t # "number" THEN notNumber(h, fs, stopV, "slice stop")
    ELSE Bind(IF stepV = Null THEN 1 ELSE trunc(stepV), LAMBDA step :
              Res(<<sliceStart(len, startV, step), sliceStop(len, stopV, step), step>>, h, fs))

\* the loop test of the slice:  i < stop  for a positive step,  i > stop  otherwise
sliceContinues(i, stop, step) == IF step > 0 THEN i < stop ELSE i > stop

\* the distance the loop variable still has to go before the loop test fails
sliceRemaining(i, stop, step) ==
    IF sliceContinues(i, stop, step)
    THEN (IF step > 0 THEN stop - i ELSE i - stop)
    ELSE 0

\* the operators of evalBinary that the model covers (-, **, the comparisons,
\* in / not in and the bitwise operators occur in no program)
BinaryOps == {"+", "*", "/", "//", "%", "==", "!="}

RECURSIVE repeat(_, _)
repeat(str, n) == IF n <= 0 THEN "" ELSE str \o repeat(str, n - 1)

\* evalBinary once both operands are evaluated (and / or are in evaluate)
evalBinary(h, fs, op, lv, rv) ==
    CASE op = "+" ->
            IF lv.t = "string" \/ rv.t = "string"
            THEN Res(Str(toString(h, fs, lv) \o toString(h, fs, rv)), h, fs)
            ELSE IF lv.t = "number" /\ rv.t = "number" THEN Res(numAdd(lv, rv), h, fs)
            ELSE IF lv.t = "array" /\ rv.t = "array"
            THEN Res(ArrV(Len(h) + 1), Append(h, ArrObj(h[lv.n].a \o h[rv.n].a)), fs)
            ELSE Err("TypeError", "Cannot add " \o typeName(h, lv) \o " and "
                                  \o typeName(h, rv), h, fs)
      [] op = "*" ->
            IF lv.t = "number" /\ rv.t = "number" THEN Res(numMul(lv, rv), h, fs)
            ELSE IF lv.t = "string" /\ rv.t = "number"
            THEN Res(Str(repeat(lv.s, trunc(rv))), h, fs)
            ELSE Err("TypeError", "Cannot multiply " \o typeName(h, lv) \o " and "
                                  \o typeName(h, rv), h, fs)
      [] op \in {"/", "//"} ->
            Bind(divisionOperands(h, fs, op, lv, rv, rv.n, "Division by zero"), LAMBDA c :
                IF ~c.ok THEN c
                ELSE IF op = "/" THEN Res(numDiv(lv, rv), h, fs)
                ELSE Res(Num(floor(numDiv(lv, rv))), h, fs))
      [] op = "%" ->
            Bind(divisionOperands(h, fs, op, lv, rv, trunc(rv), "Modulo by zero"), LAMBDA c :
                IF ~c.ok THEN c
                ELSE Res(Num(llRem(trunc(lv), trunc(rv))), h, fs))
      [] op = "==" -> equals(h, fs, lv, rv)
      [] op = "!=" ->
            \* the same comparison inlined, the accessors again applied to rv
            Bind(equals(h, fs, lv, rv), LAMBDA r :
                IF r.ok THEN Res(Bool(r.v.n = 0), h, fs) ELSE r)
      [] OTHER -> Err("RuntimeError", "Unknown operator: " \o op, h, fs)

\* value semantics: copying a container value copies its backing store
copyValueDeep(h, v) ==
    IF v.t \in {"array", "dict", "instance"}
    THEN [h |-> Append(h, h[v.n]), v |-> [v EXCEPT !.n = Len(h) + 1]]
    ELSE [h |-> h, v |-> v]

\* copying a QuantumValue copies the variant: for an array, a dict or an
\* instance that is the shared_ptr, so the copy denotes the same backing store
copyValue(h, v) == [h |-> h, v |-> v]

\* capture by value: the function keeps a copy of the environment object
captureSnapshot(es, en) == [es |-> Append(es, es[en]), closure |-> Len(es) + 1]

\* fn->closure = env: the function keeps the shared_ptr to the environment
\* object itself; es is the table of environments afterwards
capture(es, en) == [es |-> es, closure |-> en]

\* the sub-expressions a node evaluates, in the order it evaluates them
operands(e) ==
    CASE e.k = "IndexExpr" -> <<e.object, e.index>>
      [] e.k = "MemberExpr" -> <<e.object>>
      [] e.k = "BinaryExpr" -> <<e.left, e.right>>
      [] e.k = "ArrayLiteral" -> e.elements
      [] e.k = "DictLiteral" ->
            [i \in 1..(2 * Len(e.pairs)) |-> e.pairs[(i + 1) \div 2][2 - (i % 2)]]
      [] OTHER -> <<>>

\* evalArray, its elements evaluated to vs: a new Array holding them
evalArray(h, fs, vs) == Res(ArrV(Len(h) + 1), Append(h, ArrObj(vs)), fs)

\* evalDict, its pairs evaluated to vs (key, value, key, value, ...): a new
\* Dict, (*dict)[key.toString()] = val in order, a later pair replacing an
\* earlier one with the same key
evalDict(h, fs, vs) ==
    LET n == Len(vs) \div 2
        keyAt(i) == toString(h, fs, vs[2 * i - 1])
        lastOf(x) == CHOOSE i \in 1..n :
                        keyAt(i) = x /\ \A j \in (i + 1)..n : keyAt(j) # x
    IN Res(DictV(Len(h) + 1),
           Append(h, DictObj([x \in {keyAt(i) : i \in 1..n} |-> vs[2 * lastOf(x)]])),
           fs)

RECURSIVE evaluate(_, _, _, _, _)
RECURSIVE evalArgs(_, _, _, _, _, _, _)
\* evaluate() of an expression that calls no interpreted code: its operands
\* left to right, the first exception ending the evaluation, then the node
evaluate(h, fs, es, en, e) ==
    IF e.k = "Literal" THEN Res(e.value, h, fs)
    ELSE IF e.k = "Identifier"
    THEN LET g == Environment_get(es, en, e.name)
         IN IF g.ok THEN Res(g.v, h, fs) ELSE Err(g.kind, g.msg, h, fs)
    ELSE IF e.k \notin {"IndexExpr", "MemberExpr", "ArrayLiteral", "DictLiteral",
                       "BinaryExpr"}
    THEN Err("RuntimeError", "not a simple expression", h, fs)
    ELSE IF e.k = "BinaryExpr" /\ e.op \in {"and", "or"}
    THEN \* short circuit: the left operand decides whether the right one runs
         Bind(evaluate(h, fs, es, en, e.left), LAMBDA l :
         IF ~l.ok \/ isTruthy(l.h, l.v) = (e.op = "or") THEN l
         ELSE evaluate(l.h, l.fs, es, en, e.right))
    ELSE Bind(evalArgs(h, fs, es, en, operands(e), 1, <<>>), LAMBDA r :
         IF ~r.ok THEN Err(r.kind, r.msg, r.h, r.fs)
         ELSE CASE e.k = "IndexExpr" -> evalIndex(r.h, r.fs, r.vs[1], r.vs[2])
                [] e.k = "BinaryExpr" -> evalBinary(r.h, r.fs, e.op, r.vs[1], r.vs[2])
                [] e.k = "MemberExpr" -> evalMember(r.h, r.fs, r.vs[1], e.member)
                [] e.k = "ArrayLiteral" -> evalArray(r.h, r.fs, r.vs)
                [] OTHER -> evalDict(r.h, r.fs, r.vs))

\* a loop of evaluate() calls over args: the argument loop of evalCall
\* (args.push_back(evaluate(*a))) and the operand loops of evaluate
evalArgs(h, fs, es, en, args, i, done) ==
    IF i > Len(args) THEN [ok |-> TRUE, v |-> Nil, kind |-> "", msg |-> "",
                           h |-> h, fs |-> fs, vs |-> done]
    ELSE LET r == evaluate(h, fs, es, en, args[i])
         IN IF ~r.ok THEN [ok |-> FALSE, v |-> Nil, kind |-> r.kind, msg |-> r.msg,
                           h |-> r.h, fs |-> r.fs, vs |-> done]
            ELSE evalArgs(r.h, r.fs, es, en, args, i + 1, Append(done, r.v))

RECURSIVE copyArgs(_, _, _, _)
\* the argument vector handed to the callee: each value is copied
copyArgs(h, vs, i, done) ==
    IF i > Len(vs) THEN [h |-> h, vs |-> done]
    ELSE LET c == copyValue(h, vs[i])
         IN copyArgs(c.h, vs, i + 1, Append(done, c.v))

IsSimple(e) ==
    e.k \in {"Literal", "Identifier", "IndexExpr", "MemberExpr", "ArrayLiteral",
             "DictLiteral", "BinaryExpr"}

\* ───────────────────────── activations ─────────────────────────────────────
\* One frame per C++ activation that is waiting on a nested execute/evaluate:
\*   block     execBlock: node, pc (next statement), prev (env to restore)
\*   eval      evaluate(node) about to run
\*   await     a statement or AssignExpr waiting for its operand's value
\*   try       execute(TryStmt): phase body | handler | finally | rethrow
\*   while     execWhile          for    execFor: ref/items, pc (iterator)
\*   call      callFunction / callInstanceMethod / constructor (phase): ref
\*             (function), args, inst (the instance)
\*   listcomp  evalListComp: ref/items, pc (iterator), result (the new array),
\*             scope (the item's scope), prev (saved), step next | cond | expr
\* entry is the value of Interpreter::env when the activation began.  fin,
\* hidx and bodyExit record, for a try statement, how often its finally block
\* was started, which handler ran and how its body was left.

Frame(k, node, en) ==
    [k |-> k, node |-> node, pc |-> 1, prev |-> 0, phase |-> "", pending |-> Normal,
     items |-> <<>>, ref |-> 0, args |-> <<>>, inst |-> Nil,
     step |-> "", scope |-> 0, result |-> 0, entry |-> en,
     fin |-> 0, hidx |-> 0, bodyExit |-> Normal]

BlockFrame(node, prevEnv) == [Frame("block", node, prevEnv) EXCEPT !.prev = prevEnv]

Top == stack[Len(stack)]
Rest == SubSeq(stack, 1, Len(stack) - 1)
Running == status = "running" /\ Len(stack) > 0
InNormal == Running /\ mode = Normal
\* the statement a block activation executes next
AtStmt == InNormal /\ Top.k = "block" /\ Top.pc <= Len(Top.node.statements)
Cur == Top.node.statements[Top.pc]
\* the stack once the current statement has been taken
Advanced == Append(Rest, [Top EXCEPT !.pc = @ + 1])

\* ───────────────────────── native registry ─────────────────────────────────
\* registerNatives: the Python-style exception constructors (makeExcClass).

ExcNames ==
    {"ValueError", "TypeError", "RuntimeError", "IndexError", "KeyError",
     "AttributeError", "NotImplementedError", "StopIteration", "OverflowError",
     "ZeroDivisionError", "IOError", "FileNotFoundError", "PermissionError",
     "Exception", "Error", "RangeError", "ReferenceError"}

\* the native function makeExcClass(excName) registers
makeExcClass(h, fs, excName, args) ==
    Str(IF args # <<>> THEN excName \o ": " \o toString(h, fs, args[1]) ELSE excName)

\* the native function makeTypeVal("str") registers: str(x)
strCast(h, fs, args) == IF args = <<>> THEN Nil ELSE Str(toString(h, fs, args[1]))

\* the globals registerNatives defines, as far as the programs use them
Globals ==
    [parent |-> 0, vars |-> [x \in ExcNames \cup {"str"} |-> NativeV(x)], constants |-> {}]

\* ───────────────────────── statements ──────────────────────────────────────

\* Interpreter::execute called on the root block by main
Run ==
    /\ status = "init"
    /\ status' = "running"
    /\ envs' = Append(envs, NewEnv(env))
    /\ env' = Len(envs) + 1
    /\ stack' = <<BlockFrame(prog, env)>>
    /\ UNCHANGED <<prog, heap, funcs, mode, acc, out, log, eop>>

\* execBlock entry for a nested block statement
ExecBlock ==
    /\ AtStmt /\ Cur.k = "BlockStmt"
    /\ envs' = Append(envs, NewEnv(env))
    /\ env' = Len(envs) + 1
    /\ stack' = Append(Advanced, BlockFrame(Cur, env))
    /\ UNCHANGED <<prog, heap, funcs, mode, acc, out, log, status, eop>>

\* an execBlock without its catch (...) clause
execBlockNoCatch(f, cur) == cur

\* what execBlock leaves in env when an exception passes through it
execBlockCatch(f, cur) == f.prev

\* execBlock: all statements done, env = prev
LeaveBlock ==
    /\ InNormal /\ Top.k = "block" /\ Top.pc > Len(Top.node.statements)
    /\ env' = Top.prev
    /\ stack' = Rest
    /\ UNCHANGED <<prog, envs, heap, funcs, mode, acc, out, log, status, eop>>

\* execFunctionDecl
ExecFunctionDecl ==
    /\ AtStmt /\ Cur.k = "FunctionDecl"
    /\ LET c == capture(envs, env)
       IN /\ funcs' = Append(funcs, [name |-> Cur.name, params |-> Cur.params,
                                     body |-> Cur.body, closure |-> c.closure])
          /\ envs' = Environment_define(c.es, env, Cur.name, FnV(Len(funcs) + 1), FALSE)
    /\ stack' = Advanced
    /\ UNCHANGED <<prog, env, heap, mode, acc, out, log, status, eop>>

\* evalLambda
EvalLambda ==
    /\ InNormal /\ Top.k = "eval" /\ Top.node.k = "LambdaExpr"
    /\ LET c == capture(envs, env)
       IN /\ funcs' = Append(funcs, [name |-> "<lambda>", params |-> Top.node.params,
                                     body |-> Top.node.body, closure |-> c.closure])
          /\ envs' = c.es
    /\ acc' = FnV(Len(funcs) + 1)
    /\ stack' = Rest
    /\ UNCHANGED <<prog, env, heap, mode, out, log, status, eop>>

\* the operand of a statement that evaluates one expression first
Operand(s) ==
    CASE s.k = "VarDecl" -> s.initializer
      [] s.k = "ExprStmt" -> s.expr
      [] OTHER -> s.value

\* execVarDecl, execReturn, execPrint, execExprStmt, RaiseStmt: evaluate the
\* operand (when there is one), then finish in Complete
ExecOperand ==
    /\ AtStmt /\ Cur.k \in {"VarDecl", "ReturnStmt", "RaiseStmt", "PrintStmt", "ExprStmt"}
    /\ stack' = IF Operand(Cur) = Null
                THEN Append(Advanced, Frame("await", Cur, env))
                ELSE Advanced \o <<Frame("await", Cur, env), Frame("eval", Operand(Cur), env)>>
    /\ acc' = Nil
    /\ UNCHANGED <<prog, env, envs, heap, funcs, mode, out, log, status, eop>>

\* BreakStmt / ContinueStmt: throw BreakSignal{} / ContinueSignal{}
ExecJump ==
    /\ AtStmt /\ Cur.k \in {"BreakStmt", "ContinueStmt"}
    /\ mode' = IF Cur.k = "BreakStmt" THEN BreakSignal ELSE ContinueSignal
    /\ stack' = Advanced
    /\ UNCHANGED <<prog, env, envs, heap, funcs, acc, out, log, status, eop>>

\* evaluate() of a simple expression
EvalSimple ==
    /\ InNormal /\ Top.k = "eval" /\ IsSimple(Top.node)
    /\ \E r \in {evaluate(heap, funcs, envs, env, Top.node)} :
          /\ heap' = r.h
          /\ funcs' = r.fs
          /\ acc' = r.v
          /\ mode' = IF r.ok THEN Normal ELSE Thrown(r.kind, r.msg)
    /\ stack' = Rest
    /\ UNCHANGED <<prog, env, envs, out, log, status, eop>>

\* execPrint's search for the instance's __str__: the method, or nil
strMethod(h, v) == IF v.t = "instance" THEN findMethod(h, h[v.n].k, "__str__") ELSE Nil

\* the rest of a statement once its operand's value is in acc (for print:
\* the value, or what the value's __str__ returned)
Complete ==
    /\ InNormal /\ Top.k = "await" /\ Top.node.k # "AssignExpr"
    /\ (Top.node.k = "PrintStmt" /\ Top.phase # "str") => strMethod(heap, acc) = Nil
    /\ LET s == Top.node
           c == copyValue(heap, acc)
       IN
       /\ envs' = IF s.k = "VarDecl"
                  THEN Environment_define(envs, env, s.name, c.v, s.isConst)
                  ELSE envs
       /\ heap' = IF s.k = "VarDecl" THEN c.h ELSE heap
       /\ mode' = CASE s.k = "ReturnStmt" -> ReturnSignal(acc)
                    [] s.k = "RaiseStmt" ->
                         QuantumError("RuntimeError",
                             IF s.value = Null THEN "Exception raised"
                             ELSE toString(heap, funcs, acc))
                    [] OTHER -> Normal
       /\ out' = IF s.k = "PrintStmt"
                 THEN Append(out, IF s.value = Null THEN "" ELSE toString(heap, funcs, acc))
                 ELSE out
    /\ stack' = Rest
    /\ UNCHANGED <<prog, env, funcs, acc, log, status, eop>>

\* the top-level execute() has returned (mode normal) or thrown (mode)
Finish ==
    /\ status = "running" /\ stack = <<>>
    /\ status' = "done"
    /\ UNCHANGED <<prog, stack, env, envs, heap, funcs, mode, acc, out, log, eop>>

\* ───────────────────────── if / while / for ────────────────────────────────

\* execIf: the branch taken is a block (parseBodyOrStatement wraps it)
ExecIf ==
    /\ AtStmt /\ Cur.k = "IfStmt"
    /\ \E r \in {evaluate(heap, funcs, envs, env, Cur.condition)} :
       LET br == IF isTruthy(r.h, r.v) THEN Cur.thenBranch ELSE Cur.elseBranch
       IN /\ heap' = r.h
          /\ funcs' = r.fs
          /\ IF ~r.ok
             THEN /\ mode' = Thrown(r.kind, r.msg)
                  /\ stack' = Advanced
                  /\ UNCHANGED <<env, envs>>
             ELSE IF br = Null
             THEN /\ stack' = Advanced
                  /\ UNCHANGED <<mode, env, envs>>
             ELSE /\ stack' = Append(Advanced, BlockFrame(br, env))
                  /\ envs' = Append(envs, NewEnv(env))
                  /\ env' = Len(envs) + 1
                  /\ UNCHANGED mode
    /\ UNCHANGED <<prog, acc, out, log, status, eop>>

\* the environments a run may create: a loop or a recursion that never ends is
\* cut off here
MaxEnvs == 24

\* execWhile entered
ExecWhile ==
    /\ AtStmt /\ Cur.k = "WhileStmt"
    /\ stack' = Append(Advanced, [Frame("while", Cur, env) EXCEPT !.phase = "cond"])
    /\ UNCHANGED <<prog, env, envs, heap, funcs, mode, acc, out, log, status, eop>>

\* execWhile: evaluate the condition, then execute the body inside the try
WhileIter ==
    /\ InNormal /\ Top.k = "while"
    /\ Len(envs) < MaxEnvs
    /\ \E r \in {evaluate(heap, funcs, envs, env, Top.node.condition)} :
          /\ heap' = r.h
          /\ funcs' = r.fs
          /\ IF ~r.ok
             THEN /\ mode' = Thrown(r.kind, r.msg)
                  /\ stack' = Append(Rest, [Top EXCEPT !.phase = "cond"])
                  /\ UNCHANGED <<env, envs>>
             ELSE IF isTruthy(r.h, r.v)
             THEN /\ stack' = Rest \o <<[Top EXCEPT !.phase = "body"],
                                        BlockFrame(Top.node.body, env)>>
                  /\ envs' = Append(envs, NewEnv(env))
                  /\ env' = Len(envs) + 1
                  /\ UNCHANGED mode
             ELSE /\ stack' = Rest
                  /\ UNCHANGED <<mode, env, envs>>
    /\ UNCHANGED <<prog, acc, out, log, status, eop>>

Chars(str) == [i \in 1..Len(str) |-> Str(SubSeq(str, i, i))]
\* the orders in which an unordered_map may enumerate its keys
KeyOrders(d) ==
    {f \in [1..Cardinality(DOMAIN d) -> DOMAIN d] :
        \A i, j \in DOMAIN f : i # j => f[i] # f[j]}

\* execFor entered: the iterable is evaluated once; an array is walked in
\* place (ref), the range's end being fixed on entry (items holds its length)
ExecFor ==
    /\ AtStmt /\ Cur.k = "ForStmt"
    /\ \E r \in {evaluate(heap, funcs, envs, env, Cur.iterable)} :
       LET f == Frame("for", Cur, env)
       IN /\ heap' = r.h
          /\ funcs' = r.fs
          /\ IF ~r.ok
             THEN /\ mode' = Thrown(r.kind, r.msg)
                  /\ stack' = Advanced
             ELSE CASE r.v.t = "array" ->
                         /\ stack' = Append(Advanced,
                                [f EXCEPT !.phase = "array", !.ref = r.v.n,
                                          !.items = [i \in 1..Len(r.h[r.v.n].a) |-> Nil]])
                         /\ UNCHANGED mode
                    [] r.v.t = "string" ->
                         /\ stack' = Append(Advanced,
                                [f EXCEPT !.phase = "items", !.items = Chars(r.v.s)])
                         /\ UNCHANGED mode
                    [] r.v.t = "dict" ->
                         /\ \E ord \in KeyOrders(r.h[r.v.n].d) :
                              stack' = Append(Advanced,
                                [f EXCEPT !.phase = "items",
                                          !.items = [i \in DOMAIN ord |-> Str(ord[i])]])
                         /\ UNCHANGED mode
                    [] OTHER ->
                         /\ mode' = QuantumError("TypeError",
                                        "Cannot iterate over " \o typeName(r.h, r.v))
                         /\ stack' = Advanced
    /\ UNCHANGED <<prog, env, envs, acc, out, log, status, eop>>

\* the scope execFor's loop lambda builds for one item
forScope(h, parentEnv, s, item) ==
    LET e0 == NewEnv(parentEnv)
        two == item.t = "array" /\ Len(h[item.n].a) >= 2
        v1 == IF s.var2 # "" /\ two THEN h[item.n].a[1] ELSE item
        v2 == IF two THEN h[item.n].a[2] ELSE Nil
        a == [e0 EXCEPT !.vars = [x \in {s.var} |-> v1]]
    IN IF s.var2 = "" THEN a
       ELSE [a EXCEPT !.vars = [x \in {s.var, s.var2} |-> IF x = s.var2 THEN v2 ELSE v1]]

\* execFor: next item, or the loop is over
ForIter ==
    /\ InNormal /\ Top.k = "for"
    /\ IF Top.pc > Len(Top.items)
       THEN /\ stack' = Rest
            /\ UNCHANGED <<env, envs>>
       ELSE LET item == IF Top.phase = "array" THEN heap[Top.ref].a[Top.pc]
                        ELSE Top.items[Top.pc]
            IN /\ envs' = Append(envs, forScope(heap, env, Top.node, item))
               /\ env' = Len(envs) + 1
               /\ stack' = Rest \o <<[Top EXCEPT !.pc = @ + 1],
                                     [BlockFrame(Top.node.body, env) EXCEPT !.phase = "scope"]>>
    /\ UNCHANGED <<prog, heap, funcs, mode, acc, out, log, status, eop>>

\* ───────────────────────── try / except / finally ──────────────────────────

\* the handler test of the catch (QuantumError&) / catch (std::exception&) loops
handlerMatches(h, m) ==
    IF m.t = "error"
    THEN h.errorType = "" \/ h.errorType = m.kind \/
         h.errorType = "Exception" \/ h.errorType = "Error"
    ELSE h.errorType = "" \/ h.errorType = "Exception" \/ h.errorType = "Error"

\* index of the handler the loop stops at, 0 when it finds none
firstHandler(handlers, m) ==
    IF \E i \in DOMAIN handlers : handlerMatches(handlers[i], m)
    THEN CHOOSE i \in DOMAIN handlers :
            /\ handlerMatches(handlers[i], m)
            /\ \A j \in 1..(i - 1) : ~handlerMatches(handlers[j], m)
    ELSE 0

\* a try statement without the three signal clauses: everything that is not a
\* QuantumError falls to the last clause
catchClauseNoSignals(m) == IF m.t = "error" THEN "QuantumError" ELSE "std::exception"

\* which catch clause of execute(TryStmt) takes the exception thrown by the body
catchClause(m) ==
    CASE m.t \in {"return", "break", "continue"} -> "signal"
      [] m.t = "error" -> "QuantumError"
      [] OTHER -> "std::exception"

\* the record a try statement leaves in log when execute(TryStmt) is left
TryExit(f, m) ==
    [ev |-> "try", node |-> f.node, fin |-> f.fin, hidx |-> f.hidx,
     bodyExit |-> f.bodyExit, phase |-> f.phase, exit |-> m]

ExecTry ==
    /\ AtStmt /\ Cur.k = "TryStmt"
    /\ stack' = Advanced \o <<[Frame("try", Cur, env) EXCEPT !.phase = "body"],
                              BlockFrame(Cur.body, env)>>
    /\ envs' = Append(envs, NewEnv(env))
    /\ env' = Len(envs) + 1
    /\ UNCHANGED <<prog, heap, funcs, mode, acc, out, log, status, eop>>

\* runFinally() starts the finally block; next is the phase while it runs
StartFinally(f, next, pend) ==
    /\ stack' = Rest \o <<[f EXCEPT !.phase = next, !.pending = pend, !.fin = @ + 1],
                          BlockFrame(f.node.finallyBody, env)>>
    /\ envs' = Append(envs, NewEnv(env))
    /\ env' = Len(envs) + 1
    /\ mode' = Normal
    /\ UNCHANGED log

\* execute(TryStmt) is left with m in flight
LeaveTry(f, m) ==
    /\ stack' = Rest
    /\ mode' = m
    /\ log' = Append(log, TryExit(f, m))
    /\ UNCHANGED <<env, envs>>

\* the body or a handler body completed: runFinally() at the end of the
\* statement; or the finally block completed
TryResume ==
    /\ InNormal /\ Top.k = "try"
    /\ CASE Top.phase \in {"body", "handler"} ->
               IF Top.node.finallyBody # Null
               THEN StartFinally(Top, "finally", Normal)
               ELSE LeaveTry(Top, Normal)
         [] Top.phase = "finally" -> LeaveTry(Top, Normal)
         [] OTHER -> LeaveTry(Top, Top.pending)   \* "rethrow": throw;
    /\ UNCHANGED <<prog, heap, funcs, acc, out, status, eop>>

\* the alias assignment of a matching handler, made in the current environment
bindAlias(es, en, alias, msg) ==
    IF alias = "" THEN SetOk(es)
    ELSE IF ~Environment_has(es, en, alias)
    THEN SetOk(Environment_define(es, en, alias, Str(msg), FALSE))
    ELSE Environment_set(es, en, alias, Str(msg))

\* an exception reaches execute(TryStmt)
UnwindTry ==
    /\ Running /\ mode # Normal /\ Top.k = "try"
    /\ IF Top.phase # "body"
       THEN \* thrown inside a catch clause or by runFinally(): not caught here
            LeaveTry(Top, mode)
       ELSE LET f == [Top EXCEPT !.bodyExit = mode]
                hi == IF catchClause(mode) = "signal" THEN 0
                      ELSE firstHandler(f.node.handlers, mode)
            IN IF hi = 0
               THEN \* runFinally(); throw;
                    IF f.node.finallyBody # Null
                    THEN StartFinally(f, "rethrow", mode)
                    ELSE LeaveTry(f, mode)
               ELSE LET h == f.node.handlers[hi]
                        b == bindAlias(envs, env, h.alias, mode.msg)
                    IN IF ~b.ok
                       THEN LeaveTry([f EXCEPT !.phase = "handler"],
                                     Thrown(b.kind, b.msg))
                       ELSE /\ stack' = Rest \o <<[f EXCEPT !.phase = "handler", !.hidx = hi,
                                                            !.scope = Len(envs) + 1],
                                                  BlockFrame(h.body, env)>>
                            /\ envs' = Append(b.es, NewEnv(env))
                            /\ env' = Len(envs) + 1
                            /\ mode' = Normal
                            /\ UNCHANGED log
    /\ UNCHANGED <<prog, heap, funcs, acc, out, status, eop>>

\* ───────────────────────── unwinding ───────────────────────────────────────

\* execBlock's catch (...) { env = prev; throw; }
UnwindBlock ==
    /\ Running /\ mode # Normal /\ Top.k = "block"
    /\ env' = execBlockCatch(Top, env)
    /\ stack' = Rest
    /\ UNCHANGED <<prog, envs, heap, funcs, mode, acc, out, log, status, eop>>

\* the record a loop or call activation leaves in log when a signal reaches
\* it: consumed tells whether the signal ended there, result what a call returned
Passed(f, m, after, result) ==
    [ev |-> "signal", frame |-> f.k, phase |-> f.phase, signal |-> m,
     consumed |-> after = Normal, depth |-> Len(stack), result |-> result]

\* does a loop activation consume the signal?  (execWhile's and execFor's catches)
loopCatches(f, m) ==
    /\ m.t \in {"break", "continue"}
    /\ f.k = "while" => f.phase = "body"

\* execWhile / execFor: break ends the loop, continue goes on with it,
\* anything else passes through
UnwindLoop ==
    /\ Running /\ mode # Normal /\ Top.k \in {"while", "for"}
    /\ IF loopCatches(Top, mode)
       THEN /\ mode' = Normal
            /\ stack' = IF mode.t = "break" THEN Rest ELSE stack
       ELSE /\ stack' = Rest
            /\ UNCHANGED mode
    /\ log' = IF IsSignal(mode) THEN Append(log, Passed(Top, mode, mode', Nil)) ELSE log
    /\ UNCHANGED <<prog, env, envs, heap, funcs, acc, out, status, eop>>

\* an exception passes through an activation without a catch clause;
\* evalListComp leaves env as it is
UnwindPlain ==
    /\ Running /\ mode # Normal /\ Top.k \in {"eval", "await", "listcomp"}
    /\ stack' = Rest
    /\ UNCHANGED <<prog, env, envs, heap, funcs, mode, acc, out, log, status, eop>>

\* ───────────────────────── classes ─────────────────────────────────────────

RECURSIVE compileMethods(_, _, _, _, _)
\* execClassDecl's method loop: one QuantumFunction per FunctionDecl, closure = env
compileMethods(fs, methods, en, i, done) ==
    IF i > Len(methods) THEN [fs |-> fs, methods |-> done]
    ELSE LET fd == methods[i]
             fn == [name |-> fd.name, params |-> fd.params, body |-> fd.body,
                    closure |-> en]
         IN compileMethods(Append(fs, fn), methods, en, i + 1,
                [x \in (DOMAIN done) \cup {fd.name} |->
                    IF x = fd.name THEN FnV(Len(fs) + 1) ELSE done[x]])

ExecClassDecl ==
    /\ AtStmt /\ Cur.k = "ClassDecl"
    /\ LET g == IF Cur.base = "" THEN Fail("", "") ELSE Environment_get(envs, env, Cur.base)
           base == IF g.ok /\ g.v.t = "class" THEN g.v.n ELSE 0
           c == compileMethods(funcs, Cur.methods, env, 1, EmptyMap)
       IN /\ funcs' = c.fs
          /\ heap' = Append(heap, ClassObj(Cur.name, base, c.methods))
          /\ envs' = Environment_define(envs, env, Cur.name, ClassV(Len(heap) + 1), FALSE)
    /\ stack' = Advanced
    /\ UNCHANGED <<prog, env, mode, acc, out, log, status, eop>>

\* ───────────────────────── calls ───────────────────────────────────────────

\* dynamic scoping: the callee's scope hangs off the caller's environment
scopeParentCaller(fn, callerEnv) == callerEnv

\* the parent of the scope a call allocates: make_shared<Environment>(fn->closure)
scopeParent(fn, callerEnv) == fn.closure

\* the value bound to the parameter at position i (1-based), start leading
\* parameters being skipped:  ai < args.size() ? args[ai] : QuantumValue()
argFor(args, i, start) == IF i - start <= Len(args) THEN args[i - start] ELSE Nil

\* the index whose define is the last one made for name x
lastParam(params, x) ==
    CHOOSE i \in DOMAIN params :
        params[i] = x /\ \A j \in DOMAIN params : params[j] = x => j <= i

\* callFunction's scope
callScope(fn, args, callerEnv) ==
    [parent |-> scopeParent(fn, callerEnv),
     vars |-> [x \in {fn.params[i] : i \in DOMAIN fn.params} |->
                  argFor(args, lastParam(fn.params, x), 0)],
     constants |-> {}]

paramStart(fn) ==
    IF fn.params # <<>> /\ fn.params[1] \in {"self", "this"} THEN 1 ELSE 0

\* callInstanceMethod's and the constructor's scope: self, this, then the
\* parameters after a leading self/this
methodScope(fn, instVal, args, callerEnv) ==
    LET start == paramStart(fn)
        named == {fn.params[i] : i \in (start + 1)..Len(fn.params)}
    IN [parent |-> scopeParent(fn, callerEnv),
        vars |-> [x \in {"self", "this"} \cup named |->
                     IF x \in named
                     THEN LET i == CHOOSE i \in (start + 1)..Len(fn.params) :
                                      /\ fn.params[i] = x
                                      /\ \A j \in (i + 1)..Len(fn.params) : fn.params[j] # x
                          IN argFor(args, i, start)
                     ELSE instVal],
        constants |-> {}]

\* what a call resolves to: a value or an error at once, or interpreted code
\* to run (function / method / ctor) with the function fn and instance inst
Now(v, h) == [kind |-> "value", v |-> v, h |-> h, ekind |-> "", msg |-> "", fn |-> 0, inst |-> Nil]
Throw(ekind, msg, h) ==
    [kind |-> "error", v |-> Nil, h |-> h, ekind |-> ekind, msg |-> msg, fn |-> 0, inst |-> Nil]
Enter(kind, fn, inst, h) ==
    [kind |-> kind, v |-> Nil, h |-> h, ekind |-> "", msg |-> "", fn |-> fn, inst |-> inst]

\* pop returns the element and empties the array
RemoveAtAll(a, i) == <<>>

RemoveAt(a, i) == SubSeq(a, 1, i - 1) \o SubSeq(a, i + 1, Len(a))

\* callArrayMethod: push / append / pop / length
callArrayMethod(h, r, m, args) ==
    CASE m \in {"push", "append"} -> Now(Nil, [h EXCEPT ![r].a = @ \o args])
      [] m = "pop" ->
            LET n == Len(h[r].a) IN
            IF n = 0 THEN Throw("IndexError", "pop() on empty array", h)
            ELSE IF args # <<>> /\ args[1].t = "number"
            THEN LET i == IF args[1].n < 0 THEN args[1].n + n ELSE args[1].n
                 IN IF i < 0 \/ i >= n
                    THEN Throw("IndexError", "pop() index out of range", h)
                    ELSE Now(h[r].a[i + 1], [h EXCEPT ![r].a = RemoveAt(@, i + 1)])
            ELSE Now(h[r].a[n], [h EXCEPT ![r].a = RemoveAt(@, n)])
      [] m = "length" -> Now(Num(Len(h[r].a)), h)
      [] OTHER -> Throw("TypeError", "Array has no method '" \o m \o "'", h)

\* callDictMethod: has / get / set / delete / length (called with the
\* arguments each of them reads)
callDictMethod(h, fs, r, m, args) ==
    CASE m \in {"has", "contains", "hasOwnProperty"} ->
            Now(Bool(toString(h, fs, args[1]) \in DOMAIN h[r].d), h)
      [] m = "get" ->
            LET key == toString(h, fs, args[1])
            IN IF key \in DOMAIN h[r].d THEN Now(h[r].d[key], h)
               ELSE Now(IF Len(args) > 1 THEN args[2] ELSE Nil, h)
      [] m = "set" ->
            LET key == toString(h, fs, args[1])
            IN Now(Nil, [h EXCEPT ![r].d = [x \in (DOMAIN @) \cup {key} |->
                                               IF x = key THEN args[2] ELSE @[x]]])
      [] m = "delete" ->
            LET key == toString(h, fs, args[1])
            IN Now(Nil, [h EXCEPT ![r].d = [x \in (DOMAIN @) \ {key} |-> @[x]]])
      [] m \in {"length", "size"} -> Now(Num(Cardinality(DOMAIN h[r].d)), h)
      [] OTHER -> Throw("TypeError", "Dict has no method '" \o m \o "'", h)

\* callNative: the registered natives are str and the exception constructors
callNative(h, fs, v, args) ==
    Now(IF v.s = "str" THEN strCast(h, fs, args) ELSE makeExcClass(h, fs, v.s, args), h)

\* a callable value found in a dict entry or an instance field
callValue(h, fs, v, args) ==
    IF v.t = "native" THEN callNative(h, fs, v, args) ELSE Enter("function", v.n, Nil, h)

callMethod(h, fs, obj, method, args) ==
    CASE obj.t = "array" -> callArrayMethod(h, obj.n, method, args)
      [] obj.t = "string" -> Throw("TypeError", "String has no method '" \o method \o "'", h)
      [] obj.t = "dict" ->
            IF method \in DOMAIN h[obj.n].d /\ isFunction(h[obj.n].d[method])
            THEN callValue(h, fs, h[obj.n].d[method], args)
            ELSE callDictMethod(h, fs, obj.n, method, args)
      [] obj.t = "instance" ->
            IF findMethod(h, h[obj.n].k, method) # Nil
            THEN Enter("method", findMethod(h, h[obj.n].k, method).n, obj, h)
            ELSE IF method \in DOMAIN h[obj.n].d /\ isFunction(h[obj.n].d[method])
            THEN callValue(h, fs, h[obj.n].d[method], args)
            ELSE Throw("TypeError", "No method '" \o method \o "' on instance of "
                                    \o h[h[obj.n].k].name, h)
      [] obj.t = "class" ->
            Throw("TypeError", "No static method '" \o method \o "' on class "
                               \o h[obj.n].name, h)
      [] OTHER -> Throw("TypeError", "No method '" \o method \o "' on " \o typeName(h, obj), h)

\* the lookup starts one class further up
parentClassSkip(h, inst) ==
    IF h[h[inst.n].k].k = 0 THEN 0 ELSE h[h[h[inst.n].k].k].k

\* auto parentClass = inst->klass->base
parentClass(h, inst) == h[h[inst.n].k].k

\* evalCall, callee a SuperExpr: super(args) runs the init, super.method(args)
\* the method, found from the base of self's class upwards, on self
callSuper(h, es, en, method, args) ==
    Bind(Environment_get(es, en, "self"), LAMBDA g :
        IF ~g.ok THEN Throw(g.kind, g.msg, h)
        ELSE IF g.v.t # "instance" THEN Throw(BadAccess, "bad variant access", h)
        ELSE IF parentClass(h, g.v) = 0
        THEN Throw("RuntimeError",
                   IF method = "" THEN "No parent class for super() call"
                   ELSE "No parent class for super call", h)
        ELSE Bind(findMethod(h, parentClass(h, g.v), IF method = "" THEN "init" ELSE method),
                  LAMBDA f :
                      IF f # Nil THEN Enter("method", f.n, g.v, h)
                      ELSE IF method = "" THEN Now(Nil, h)
                      ELSE Throw("RuntimeError",
                                 "Method '" \o method \o "' not found in parent class", h)))

\* evalCall once callee and arguments are evaluated
callCallee(h, fs, callee, args) ==
    CASE callee.t = "class" ->
            LET initFn == findMethod(h, callee.n, "init")
                h2 == Append(h, InstObj(callee.n))
                instVal == InstV(Len(h) + 1)
            IN IF initFn = Nil THEN Now(instVal, h2)
               ELSE Enter("ctor", initFn.n, instVal, h2)
      [] callee.t = "function" -> Enter("function", callee.n, Nil, h)
      [] callee.t = "native" -> callNative(h, fs, callee, args)
      [] OTHER -> Throw("TypeError", "Cannot call " \o typeName(h, callee), h)

\* evalCall: callee (or the receiver of a method call; nothing for super) and
\* the arguments are evaluated, then the call is dispatched
EvalCall ==
    /\ InNormal /\ Top.k = "eval" /\ Top.node.k = "CallExpr"
    /\ Len(envs) < MaxEnvs
    /\ LET e == Top.node
           isM == e.callee.k = "MemberExpr"
           isS == e.callee.k = "SuperExpr"
       IN \E c \in {IF isS THEN Res(Nil, heap, funcs)
                     ELSE evaluate(heap, funcs, envs, env,
                                   IF isM THEN e.callee.object ELSE e.callee)} :
          \E ev \in {evalArgs(c.h, c.fs, envs, env, e.args, 1, <<>>)} :
          \E a \in {copyArgs(ev.h, ev.vs, 1, <<>>)} :
          \E d \in {IF isM THEN callMethod(a.h, ev.fs, c.v, e.callee.member, a.vs)
                     ELSE IF isS THEN callSuper(a.h, envs, env, e.callee.method, a.vs)
                     ELSE callCallee(a.h, ev.fs, c.v, a.vs)} :
          IF ~c.ok \/ ~ev.ok
          THEN /\ mode' = IF ~c.ok THEN Thrown(c.kind, c.msg)
                          ELSE Thrown(ev.kind, ev.msg)
               /\ heap' = IF ~c.ok THEN c.h ELSE ev.h
               /\ funcs' = IF ~c.ok THEN c.fs ELSE ev.fs
               /\ stack' = Rest
               /\ UNCHANGED <<env, envs, acc>>
          ELSE /\ funcs' = ev.fs
               /\ heap' = d.h
               /\ CASE d.kind = "value" ->
                         /\ acc' = d.v
                         /\ stack' = Rest
                         /\ UNCHANGED <<mode, env, envs>>
                    [] d.kind = "error" ->
                         /\ mode' = Thrown(d.ekind, d.msg)
                         /\ stack' = Rest
                         /\ UNCHANGED <<env, envs, acc>>
                    [] OTHER ->
                         LET fn == ev.fs[d.fn]
                             sc == IF d.kind = "function" THEN callScope(fn, a.vs, env)
                                   ELSE methodScope(fn, d.inst, a.vs, env)
                         IN /\ stack' = Rest \o
                                  <<[Frame("call", e, env) EXCEPT !.phase = d.kind,
                                        !.ref = d.fn, !.args = a.vs, !.inst = d.inst],
                                    [BlockFrame(fn.body, env) EXCEPT !.phase = "scope"]>>
                            /\ envs' = Append(envs, sc)
                            /\ env' = Len(envs) + 1
                            /\ UNCHANGED <<mode, acc>>
    /\ UNCHANGED <<prog, out, log, status, eop>>

\* execPrint of an instance whose class chain defines __str__:
\* callInstanceMethod(inst, it->second, {}), whose result is then printed
PrintStr ==
    /\ InNormal /\ Top.k = "await" /\ Top.node.k = "PrintStmt" /\ Top.phase # "str"
    /\ strMethod(heap, acc) # Nil
    /\ \E fn \in {funcs[strMethod(heap, acc).n]} :
          /\ stack' = Rest \o
                <<[Top EXCEPT !.phase = "str"],
                  [Frame("call", Top.node, env) EXCEPT !.phase = "method",
                      !.ref = strMethod(heap, acc).n, !.inst = acc],
                  [BlockFrame(fn.body, env) EXCEPT !.phase = "scope"]>>
          /\ envs' = Append(envs, methodScope(fn, acc, <<>>, env))
          /\ env' = Len(envs) + 1
    /\ UNCHANGED <<prog, heap, funcs, mode, acc, out, log, status, eop>>

\* the constructor call yields what its init returned
callResultReturned(f, m) ==
    IF m.t = "return" THEN m.v ELSE IF f.phase = "ctor" THEN f.inst ELSE Nil

\* what a call activation returns: the constructor yields the instance
callResult(f, m) ==
    IF f.phase = "ctor" THEN f.inst
    ELSE IF m.t = "return" THEN m.v ELSE Nil

\* the record a call leaves in log when its body fell off its end
Returned(f, result) ==
    [ev |-> "call", phase |-> f.phase, ref |-> f.ref, args |-> f.args, result |-> result]

\* the body fell off its end
CallReturn ==
    /\ InNormal /\ Top.k = "call"
    /\ acc' = callResult(Top, mode)
    /\ stack' = Rest
    /\ log' = Append(log, Returned(Top, acc'))
    /\ UNCHANGED <<prog, env, envs, heap, funcs, mode, out, status, eop>>

\* catch (ReturnSignal &r) of callFunction, callInstanceMethod and the
\* constructor; anything else passes through
UnwindCall ==
    /\ Running /\ mode # Normal /\ Top.k = "call"
    /\ IF mode.t = "return"
       THEN /\ acc' = callResult(Top, mode)
            /\ mode' = Normal
       ELSE UNCHANGED <<acc, mode>>
    /\ stack' = Rest
    /\ log' = IF IsSignal(mode) THEN Append(log, Passed(Top, mode, mode', acc')) ELSE log
    /\ UNCHANGED <<prog, env, envs, heap, funcs, out, status, eop>>

\* ───────────────────────── assignment ──────────────────────────────────────

\* setLValue's applyOp
applyOp(h, fs, op, old, val) ==
    CASE op = "+=" /\ old.t = "string" -> Ok(Str(old.s \o toString(h, fs, val)))
      [] op \in {"+=", "-=", "*="} ->
            \* the order in which toNum(old) and toNum(val) run is the
            \* compiler's; both throw TypeError
            IF old.t # "number"
            THEN Fail("TypeError", "Expected number in " \o op \o ", got " \o typeName(h, old))
            ELSE IF val.t # "number"
            THEN Fail("TypeError", "Expected number in " \o op \o ", got " \o typeName(h, val))
            ELSE Ok(CASE op = "+=" -> numAdd(old, val)
                      [] op = "-=" -> numSub(old, val)
                      [] OTHER -> numMul(old, val))
      [] op = "/=" ->
            Bind(divisionOperands(h, fs, op, old, val, val.n, "Div by 0"), LAMBDA c :
                IF ~c.ok THEN Fail(c.kind, c.msg) ELSE Ok(numDiv(old, val)))
      [] OTHER -> Ok(val)

LvOk(es, h, fs) == [ok |-> TRUE, es |-> es, h |-> h, fs |-> fs, kind |-> "", msg |-> ""]
LvFail(kind, msg, es, h, fs) ==
    [ok |-> FALSE, es |-> es, h |-> h, fs |-> fs, kind |-> kind, msg |-> msg]

MapPut(d, key, v) == [x \in (DOMAIN d) \cup {key} |-> IF x = key THEN v ELSE d[x]]
MapGet(d, key) == IF key \in DOMAIN d THEN d[key] ELSE Nil

\* env->set(name, v), r its outcome
lvSet(r, es, h, fs) ==
    IF r.ok THEN LvOk(r.es, h, fs) ELSE LvFail(r.kind, r.msg, es, h, fs)

\* container[key] = applyOp(...), nv the outcome of applyOp and h2 the heap
\* with the element stored
lvStore(nv, es, h, fs, h2) ==
    IF ~nv.ok THEN LvFail(nv.kind, nv.msg, es, h, fs) ELSE LvOk(es, h2, fs)

setLValue(h, fs, es, en, target, val, op) ==
    CASE target.k = "Identifier" ->
            IF op = "="
            THEN IF ~Environment_has(es, en, target.name)
                 THEN LvOk(Environment_define(es, en, target.name, val, FALSE), h, fs)
                 ELSE lvSet(Environment_set(es, en, target.name, val), es, h, fs)
            ELSE Bind(Environment_get(es, en, target.name), LAMBDA g :
                 IF ~g.ok THEN LvFail(g.kind, g.msg, es, h, fs)
                 ELSE Bind(applyOp(h, fs, op, g.v, val), LAMBDA nv :
                 IF ~nv.ok THEN LvFail(nv.kind, nv.msg, es, h, fs)
                 ELSE lvSet(Environment_set(es, en, target.name, nv.v), es, h, fs)))
      [] target.k = "IndexExpr" ->
            Bind(evaluate(h, fs, es, en, target.object), LAMBDA o :
            IF ~o.ok THEN LvFail(o.kind, o.msg, es, o.h, o.fs)
            ELSE Bind(evaluate(o.h, o.fs, es, en, target.index), LAMBDA i :
            IF ~i.ok THEN LvFail(i.kind, i.msg, es, i.h, i.fs)
            ELSE IF o.v.t = "array"
            THEN IF i.v.t # "number"
                 THEN LvFail("TypeError", "Expected number in index, got "
                                          \o typeName(i.h, i.v), es, i.h, i.fs)
                 ELSE Bind(IF i.v.n < 0 THEN i.v.n + Len(i.h[o.v.n].a) ELSE i.v.n,
                      LAMBDA ix :
                      IF ix < 0 \/ ix >= Len(i.h[o.v.n].a)
                      THEN LvFail("IndexError", "Array index out of range", es, i.h, i.fs)
                      ELSE Bind(applyOp(i.h, i.fs, op, i.h[o.v.n].a[ix + 1], val),
                           LAMBDA nv :
                           lvStore(nv, es, i.h, i.fs,
                                   [i.h EXCEPT ![o.v.n].a[ix + 1] = nv.v])))
            ELSE IF o.v.t = "dict"
            THEN Bind(toString(i.h, i.fs, i.v), LAMBDA key :
                 Bind(applyOp(i.h, i.fs, op, MapGet(i.h[o.v.n].d, key), val), LAMBDA nv :
                 lvStore(nv, es, i.h, i.fs,
                         [i.h EXCEPT ![o.v.n].d = MapPut(@, key, nv.v)])))
            ELSE LvOk(es, i.h, i.fs)))
      [] target.k = "MemberExpr" ->
            Bind(evaluate(h, fs, es, en, target.object), LAMBDA o :
            IF ~o.ok THEN LvFail(o.kind, o.msg, es, o.h, o.fs)
            ELSE IF o.v.t \in {"instance", "dict"}
            THEN Bind(applyOp(o.h, o.fs, op, MapGet(o.h[o.v.n].d, target.member), val),
                 LAMBDA nv :
                 lvStore(nv, es, o.h, o.fs,
                         [o.h EXCEPT ![o.v.n].d = MapPut(@, target.member, nv.v)]))
            ELSE LvOk(es, o.h, o.fs))
      [] OTHER -> LvOk(es, h, fs)

\* evalAssign: auto val = evaluate(*e.value); ...
EvalAssign ==
    /\ InNormal /\ Top.k = "eval" /\ Top.node.k = "AssignExpr"
    /\ stack' = Rest \o <<Frame("await", Top.node, env), Frame("eval", Top.node.value, env)>>
    /\ UNCHANGED <<prog, env, envs, heap, funcs, mode, acc, out, log, status, eop>>

\* ... setLValue(*e.target, val, e.op); return val;
CompleteAssign ==
    /\ InNormal /\ Top.k = "await" /\ Top.node.k = "AssignExpr"
    /\ \E c \in {copyValue(heap, acc)} :
       \E r \in {setLValue(c.h, funcs, envs, env, Top.node.target, c.v, Top.node.op)} :
          /\ envs' = r.es
          /\ heap' = r.h
          /\ funcs' = r.fs
          /\ mode' = IF r.ok THEN Normal ELSE Thrown(r.kind, r.msg)
    /\ stack' = Rest
    /\ UNCHANGED <<prog, env, acc, out, log, status, eop>>

\* ───────────────────────── list comprehension ──────────────────────────────

\* evalListComp entered: result array allocated, iterable evaluated; anything
\* that is not an array, a string or a dict yields the empty result
EvalListComp ==
    /\ InNormal /\ Top.k = "eval" /\ Top.node.k = "ListComp"
    /\ \E r \in {evaluate(Append(heap, ArrObj(<<>>)), funcs, envs, env,
                            Top.node.iterable)} :
       LET f == [Frame("listcomp", Top.node, env) EXCEPT
                    !.result = Len(heap) + 1, !.step = "next", !.prev = env]
       IN /\ heap' = r.h
          /\ funcs' = r.fs
          /\ IF ~r.ok
             THEN /\ mode' = Thrown(r.kind, r.msg)
                  /\ stack' = Rest
             ELSE /\ UNCHANGED mode
                  /\ CASE r.v.t = "array" ->
                            stack' = Append(Rest,
                                [f EXCEPT !.phase = "array", !.ref = r.v.n,
                                          !.items = [i \in 1..Len(r.h[r.v.n].a) |-> Nil]])
                       [] r.v.t = "string" ->
                            stack' = Append(Rest,
                                [f EXCEPT !.phase = "items", !.items = Chars(r.v.s)])
                       [] r.v.t = "dict" ->
                            \E ord \in KeyOrders(r.h[r.v.n].d) :
                                stack' = Append(Rest,
                                    [f EXCEPT !.phase = "dict", !.ref = r.v.n,
                                              !.items = [i \in DOMAIN ord |-> Str(ord[i])]])
                       [] OTHER -> stack' = Append(Rest, f)
    /\ UNCHANGED <<prog, env, envs, acc, out, log, status, eop>>

\* the scope processItem builds for one item
compScope(h, parentEnv, lvars, item) ==
    LET two == item.t = "array" /\ Len(h[item.n].a) >= 2
        names == IF Len(lvars) >= 2 THEN {lvars[1], lvars[2]} ELSE {lvars[1]}
    IN [parent |-> parentEnv,
        vars |-> [x \in names |->
                    IF Len(lvars) < 2 THEN item
                    ELSE IF x = lvars[2] THEN (IF two THEN h[item.n].a[2] ELSE Nil)
                    ELSE (IF two THEN h[item.n].a[1] ELSE item)],
        constants |-> {}]

\* processItem for the next item (env = scope; evaluate condition or expr),
\* or the end of evalListComp
ListCompNext ==
    /\ InNormal /\ Top.k = "listcomp" /\ Top.step = "next"
    /\ IF Top.pc > Len(Top.items)
       THEN /\ acc' = ArrV(Top.result)
            /\ stack' = Rest
            /\ UNCHANGED <<env, envs, heap>>
       ELSE LET h1 == IF Top.phase = "dict"
                      THEN Append(heap, ArrObj(<<Top.items[Top.pc],
                                                 heap[Top.ref].d[Top.items[Top.pc].s]>>))
                      ELSE heap
                item == CASE Top.phase = "array" -> heap[Top.ref].a[Top.pc]
                          [] Top.phase = "dict" -> ArrV(Len(heap) + 1)
                          [] OTHER -> Top.items[Top.pc]
                hasCond == Top.node.condition # Null
            IN /\ heap' = h1
               /\ envs' = Append(envs, compScope(h1, env, Top.node.vars, item))
               /\ env' = Len(envs) + 1
               /\ stack' = Rest \o
                     <<[Top EXCEPT !.pc = @ + 1, !.scope = Len(envs) + 1, !.prev = env,
                                   !.step = IF hasCond THEN "cond" ELSE "expr"],
                       Frame("eval", IF hasCond THEN Top.node.condition ELSE Top.node.expr,
                             Len(envs) + 1)>>
               /\ UNCHANGED acc
    /\ UNCHANGED <<prog, funcs, mode, out, log, status, eop>>

\* env = saved after the condition or the expression has been evaluated
ListCompResume ==
    /\ InNormal /\ Top.k = "listcomp" /\ Top.step \in {"cond", "expr"}
    /\ IF Top.step = "cond" /\ isTruthy(heap, acc)
       THEN /\ env' = Top.scope
            /\ stack' = Rest \o <<[Top EXCEPT !.step = "expr"],
                                  Frame("eval", Top.node.expr, Top.scope)>>
            /\ UNCHANGED heap
       ELSE /\ env' = Top.prev
            /\ stack' = Append(Rest, [Top EXCEPT !.step = "next"])
            /\ heap' = IF Top.step = "expr"
                       THEN [heap EXCEPT ![Top.result].a = Append(@, acc)]
                       ELSE heap
    /\ UNCHANGED <<prog, envs, funcs, mode, acc, out, log, status, eop>>

\* ───────────────────────── Lexer (src/Lexer.cpp) ──────────────────────────
\* A source text is a string, positions count from 1.  The backtick cannot
\* be written in a TLA+ string: BackTick stands for it in the sources (none
\* of them uses the xor operator, the only other reading of that character).

BackTick == "^"

Token(type, value, line) == [type |-> type, value |-> value, line |-> line]

\* Lexer::current / peek: the character at p, '\0' past the end
current(src, p) == IF p >= 1 /\ p <= Len(src) THEN SubSeq(src, p, p) ELSE ""

Alphabet == "abcdefghijklmnopqrstuvwxyzABCDEFGHIJKLMNOPQRSTUVWXYZ_"
\* std::isalpha(c) || c == '_'
isAlpha(c) == \E i \in 1..Len(Alphabet) : SubSeq(Alphabet, i, i) = c
isAlnum(c) == isAlpha(c) \/ IsDigit(c)

\* the line counter after the characters before p were advanced over
lineAt(src, p) == 1 + Cardinality({i \in 1..(p - 1) : current(src, i) = "\n"})

RECURSIVE skipWhitespace(_, _)
skipWhitespace(src, p) ==
    IF current(src, p) \in {" ", "\t", "\r"} THEN skipWhitespace(src, p + 1) ELSE p

\* where skipComment stops: at the line's '\n' or at the end
RECURSIVE skipComment(_, _)
skipComment(src, p) ==
    IF p > Len(src) \/ current(src, p) = "\n" THEN p ELSE skipComment(src, p + 1)

\* where skipBlockComment stops: behind the closing */ or at the end
RECURSIVE skipBlockComment(_, _)
skipBlockComment(src, p) ==
    IF p > Len(src) THEN p
    ELSE IF current(src, p) = "*" /\ current(src, p + 1) = "/" THEN p + 2
    ELSE skipBlockComment(src, p + 1)

\* readNumber (decimal): digits with at most one dot
RECURSIVE numberEnd(_, _, _)
numberEnd(src, p, hasDot) ==
    IF IsDigit(current(src, p)) THEN numberEnd(src, p + 1, hasDot)
    ELSE IF current(src, p) = "." /\ ~hasDot THEN numberEnd(src, p + 1, TRUE)
    ELSE p

RECURSIVE identifierEnd(_, _)
identifierEnd(src, p) ==
    IF isAlnum(current(src, p)) THEN identifierEnd(src, p + 1) ELSE p

\* readString: the position of the closing quote, past the end when there
\* is none
RECURSIVE closingQuote(_, _, _)
closingQuote(src, p, quote) ==
    IF p > Len(src) \/ current(src, p) = quote THEN p ELSE closingQuote(src, p + 1, quote)

\* Lexer::keywords
keywords(id) ==
    CASE id \in {"true", "True"} -> "BOOL_TRUE"
      [] id \in {"false", "False"} -> "BOOL_FALSE"
      [] id \in {"nil", "null", "undefined", "None"} -> "NIL"
      [] id \in {"this", "self"} -> "THIS"
      [] id \in {"let"} -> "LET"
      [] id \in {"const"} -> "CONST"
      [] id \in {"fn"} -> "FN"
      [] id \in {"def"} -> "DEF"
      [] id \in {"function"} -> "FUNCTION"
      [] id \in {"class"} -> "CLASS"
      [] id \in {"super"} -> "SUPER"
      [] id \in {"return"} -> "RETURN"
      [] id \in {"if"} -> "IF"
      [] id \in {"else"} -> "ELSE"
      [] id \in {"elif"} -> "ELIF"
      [] id \in {"while"} -> "WHILE"
      [] id \in {"for"} -> "FOR"
      [] id \in {"in"} -> "IN"
      [] id \in {"of"} -> "OF"
      [] id \in {"break"} -> "BREAK"
      [] id \in {"continue"} -> "CONTINUE"
      [] id \in {"print", "printf"} -> "PRINT"
      [] id \in {"and"} -> "AND"
      [] id \in {"or"} -> "OR"
      [] id \in {"not"} -> "NOT"
      [] id \in {"int"} -> "TYPE_INT"
      [] OTHER -> "IDENTIFIER"

\* the tokens the comment in the source names: number, string, identifier, ), ]
ValueTokensNamed == {"NUMBER", "STRING", "IDENTIFIER", "RPAREN", "RBRACKET"}

\* the token types after which // is the floor division
ValueTokens ==
    {"NUMBER", "STRING", "BOOL_TRUE", "BOOL_FALSE", "NIL", "IDENTIFIER", "RPAREN", "RBRACKET"}

prevIsValue(raw) == raw # <<>> /\ raw[Len(raw)].type \in ValueTokens

\* the result of one round of tokenize's loop: the tokens so far and the
\* position reached, or a LexError
Lexed(raw, p) == [ok |-> TRUE, raw |-> raw, pos |-> p, msg |-> ""]
LexError(raw, msg) == [ok |-> FALSE, raw |-> raw, pos |-> 0, msg |-> msg]

\* the operators and delimiters of tokenize's switch that begin with c at p
\* (the character behind c is n, the one behind that n2); '/' is not here
operatorToken(c, n, n2) ==
    CASE c = "+" -> IF n = "+" THEN <<"PLUS_PLUS", 2>>
                    ELSE IF n = "=" THEN <<"PLUS_ASSIGN", 2>> ELSE <<"PLUS", 1>>
      [] c = "-" -> IF n = "-" THEN <<"MINUS_MINUS", 2>>
                    ELSE IF n = ">" THEN <<"ARROW", 2>>
                    ELSE IF n = "=" THEN <<"MINUS_ASSIGN", 2>> ELSE <<"MINUS", 1>>
      [] c = "*" -> IF n = "*" THEN <<"POWER", 2>>
                    ELSE IF n = "=" THEN <<"STAR_ASSIGN", 2>> ELSE <<"STAR", 1>>
      [] c = "%" -> <<"PERCENT", 1>>
      [] c = "=" -> IF n = "=" THEN (IF n2 = "=" THEN <<"STRICT_EQ", 3>> ELSE <<"EQ", 2>>)
                    ELSE IF n = ">" THEN <<"FAT_ARROW", 2>> ELSE <<"ASSIGN", 1>>
      [] c = "<" -> IF n = "=" THEN <<"LTE", 2>>
                    ELSE IF n = "<" THEN <<"LSHIFT", 2>> ELSE <<"LT", 1>>
      [] c = ">" -> IF n = "=" THEN <<"GTE", 2>>
                    ELSE IF n = ">" THEN <<"RSHIFT", 2>> ELSE <<"GT", 1>>
      [] c = "(" -> <<"LPAREN", 1>>
      [] c = ")" -> <<"RPAREN", 1>>
      [] c = "{" -> <<"LBRACE", 1>>
      [] c = "}" -> <<"RBRACE", 1>>
      [] c = "[" -> <<"LBRACKET", 1>>
      [] c = "]" -> <<"RBRACKET", 1>>
      [] c = "," -> <<"COMMA", 1>>
      [] c = ";" -> <<"SEMICOLON", 1>>
      [] c = ":" -> <<"COLON", 1>>
      [] c = "." -> <<"DOT", 1>>
      [] OTHER -> <<"", 0>>

\* the parts of a template literal whose text begins at p: text segments
\* (isExpr FALSE) and ${...} expression sources (isExpr TRUE)
Part(isExpr, content) == [isExpr |-> isExpr, content |-> content]

\* the '}' that closes the ${ whose expression begins at p (depth counts the
\* braces open), past the end when there is none
RECURSIVE closingBrace(_, _, _)
closingBrace(src, p, depth) ==
    IF p > Len(src) THEN p
    ELSE IF current(src, p) = "{" THEN closingBrace(src, p + 1, depth + 1)
    ELSE IF current(src, p) = "}"
         THEN IF depth = 1 THEN p ELSE closingBrace(src, p + 1, depth - 1)
    ELSE closingBrace(src, p + 1, depth)

\* readTemplateLiteral's first loop: <<parts, position behind the literal>>
RECURSIVE templateParts(_, _, _, _)
templateParts(src, p, seg, parts) ==
    IF p > Len(src) THEN <<Append(parts, Part(FALSE, seg)), p>>
    ELSE IF current(src, p) = BackTick THEN <<Append(parts, Part(FALSE, seg)), p + 1>>
    ELSE IF current(src, p) = "$" /\ current(src, p + 1) = "{"
    THEN templateParts(src, closingBrace(src, p + 2, 1) + 1, "",
             parts \o <<Part(FALSE, seg),
                        Part(TRUE, SubSeq(src, p + 2, closingBrace(src, p + 2, 1) - 1))>>)
    ELSE templateParts(src, p + 1, seg \o current(src, p), parts)

\* rawTokens[j] of the first token at or behind i that is not a NEWLINE
RECURSIVE skipNewlineTokens(_, _)
skipNewlineTokens(raw, i) ==
    IF i <= Len(raw) /\ raw[i].type = "NEWLINE" THEN skipNewlineTokens(raw, i + 1) ELSE i

\* where line ln begins in src, 0 when src has no such line
lineStart(src, ln) ==
    IF ln = 1 THEN 1
    ELSE IF \E p \in 1..Len(src) : current(src, p) = "\n" /\ lineAt(src, p) = ln - 1
         THEN 1 + CHOOSE p \in 1..Len(src) : current(src, p) = "\n" /\ lineAt(src, p) = ln - 1
         ELSE 0

RECURSIVE leadingIndent(_, _)
leadingIndent(src, p) ==
    IF current(src, p) = " " THEN 1 + leadingIndent(src, p + 1)
    ELSE IF current(src, p) = "\t" THEN 4 + leadingIndent(src, p + 1)
    ELSE 0

\* indentOf[ln]: the leading spaces of line ln, a tab counting 4
indentOf(src, ln) == IF lineStart(src, ln) = 0 THEN 0 ELSE leadingIndent(src, lineStart(src, ln))

\* the state of the INDENT/DEDENT pass: the raw token looked at, the indent
\* stack, the bracket depth and the tokens emitted
IndentPass(i, indentStack, bracketDepth, tokens) ==
    [i |-> i, indentStack |-> indentStack, bracketDepth |-> bracketDepth, tokens |-> tokens]

Last(s) == s[Len(s)]

\* DEDENT tokens for the levels above nextIndent (all FALSE), or for every
\* level but the first (all TRUE)
RECURSIVE popIndents(_, _, _, _, _)
popIndents(st, nextIndent, all, line, n) ==
    IF Len(st.indentStack) > 1 /\ (all \/ nextIndent < Last(st.indentStack))
    THEN popIndents([st EXCEPT !.indentStack = SubSeq(@, 1, Len(@) - 1),
                               !.tokens = Append(@, Token("DEDENT", "DEDENT", line))],
                    nextIndent, all, line, n)
    ELSE [st EXCEPT !.i = n]

\* one round of the pass's for loop, st.i <= Len(raw)
indentStep(src, raw, st) ==
    LET tok == raw[st.i]
        depth == IF tok.type \in {"LBRACE", "LBRACKET", "LPAREN"} THEN st.bracketDepth + 1
                 ELSE IF tok.type \in {"RBRACE", "RBRACKET", "RPAREN"}
                      THEN IF st.bracketDepth > 0 THEN st.bracketDepth - 1 ELSE 0
                 ELSE st.bracketDepth
        j == skipNewlineTokens(raw, st.i + 1)
        more == j <= Len(raw) /\ raw[j].type # "EOF_TOKEN"
        s1 == [st EXCEPT !.bracketDepth = depth]
    IN IF tok.type = "COLON" /\ depth = 0
       THEN IF more /\ indentOf(src, raw[j].line) > Last(st.indentStack)
            THEN [s1 EXCEPT !.tokens = @ \o SubSeq(raw, st.i, j - 1)
                                         \o <<Token("INDENT", "INDENT", tok.line)>>,
                            !.indentStack = Append(@, indentOf(src, raw[j].line)),
                            !.i = j]
            ELSE [s1 EXCEPT !.tokens = Append(@, tok), !.i = st.i + 1]
       ELSE IF tok.type = "NEWLINE" /\ depth = 0
       THEN popIndents([s1 EXCEPT !.tokens = Append(@, tok)],
                       IF more THEN indentOf(src, raw[j].line) ELSE 0, ~more,
                       tok.line, st.i + 1)
       ELSE [s1 EXCEPT !.tokens = Append(@, tok), !.i = st.i + 1]

RECURSIVE indentPass(_, _, _)
indentPass(src, raw, st) ==
    IF st.i > Len(raw) THEN st.tokens ELSE indentPass(src, raw, indentStep(src, raw, st))

RECURSIVE scanToken(_, _, _)
RECURSIVE rawTokens(_, _, _)
RECURSIVE templateTokens(_, _, _, _, _)

\* Lexer::tokenize: the raw tokens, EOF_TOKEN, then the INDENT/DEDENT pass
tokenize(src) ==
    Bind(rawTokens(src, 1, <<>>), LAMBDA r :
        IF ~r.ok THEN r
        ELSE Lexed(indentPass(src, Append(r.raw, Token("EOF_TOKEN", "", lineAt(src, Len(src) + 1))),
                              IndentPass(1, <<0>>, 0, <<>>)), r.pos))

\* readTemplateLiteral's second loop: the tokens of parts[i..], appended to
\* toks; first is the flag of emitPlus
templateTokens(parts, i, toks, first, line) ==
    IF i > Len(parts)
    THEN Lexed(IF first THEN Append(toks, Token("STRING", "", line)) ELSE toks, 0)
    ELSE Bind(IF first THEN toks ELSE Append(toks, Token("PLUS", "+", line)), LAMBDA plus :
         IF ~parts[i].isExpr
         THEN IF parts[i].content # "" \/ Len(parts) = 1
              THEN templateTokens(parts, i + 1,
                       Append(plus, Token("STRING", parts[i].content, line)), FALSE, line)
              ELSE templateTokens(parts, i + 1, toks, first, line)
         ELSE Bind(tokenize(parts[i].content), LAMBDA sub :
              IF ~sub.ok THEN LexError(toks, sub.msg)
              ELSE templateTokens(parts, i + 1,
                       Append(plus, Token("LPAREN", "(", line))
                         \o SelectSeq(sub.raw, LAMBDA t : t.type \notin {"EOF_TOKEN", "NEWLINE"})
                         \o <<Token("RPAREN", ")", line)>>,
                       FALSE, line)))

\* one round of tokenize's while loop at position pos <= Len(src)
scanToken(src, pos, raw) ==
    Bind(skipWhitespace(src, pos), LAMBDA p :
    Bind(current(src, p), LAMBDA c :
    Bind(lineAt(src, p), LAMBDA line :
    IF p > Len(src) THEN Lexed(raw, p)
    ELSE IF c = "\n" THEN Lexed(Append(raw, Token("NEWLINE", "\\n", line)), p + 1)
    ELSE IF c = "#" THEN Lexed(raw, skipComment(src, p))
    ELSE IF IsDigit(c)
    THEN Lexed(Append(raw, Token("NUMBER", SubSeq(src, p, numberEnd(src, p, FALSE) - 1), line)),
               numberEnd(src, p, FALSE))
    ELSE IF c \in {"\"", "'"}
    THEN IF closingQuote(src, p + 1, c) > Len(src)
         THEN LexError(raw, "Unterminated string literal")
         ELSE Lexed(Append(raw, Token("STRING",
                                      SubSeq(src, p + 1, closingQuote(src, p + 1, c) - 1), line)),
                    closingQuote(src, p + 1, c) + 1)
    ELSE IF c = BackTick
    THEN Bind(templateParts(src, p + 1, "", <<>>), LAMBDA tp :
         Bind(templateTokens(tp[1], 1, raw, TRUE, line), LAMBDA tt :
         IF tt.ok THEN Lexed(tt.raw, tp[2]) ELSE tt))
    ELSE IF isAlpha(c)
    THEN Bind(SubSeq(src, p, identifierEnd(src, p) - 1), LAMBDA id :
         Lexed(Append(raw, Token(keywords(id), id, line)), identifierEnd(src, p)))
    ELSE IF c = "/"
    THEN IF current(src, p + 1) = "/"
         THEN IF prevIsValue(raw)
              THEN Lexed(Append(raw, Token("FLOOR_DIV", "//", line)), p + 2)
              ELSE Lexed(raw, skipComment(src, p + 1))
         ELSE IF current(src, p + 1) = "*" THEN Lexed(raw, skipBlockComment(src, p + 2))
         ELSE IF current(src, p + 1) = "=" THEN Lexed(Append(raw, Token("SLASH_ASSIGN", "/=", line)), p + 2)
         ELSE Lexed(Append(raw, Token("SLASH", "/", line)), p + 1)
    ELSE Bind(operatorToken(c, current(src, p + 1), current(src, p + 2)), LAMBDA o :
         IF o[2] = 0 THEN LexError(raw, "Unexpected character: " \o c)
         ELSE Lexed(Append(raw, Token(o[1], SubSeq(src, p, p + o[2] - 1), line)), p + o[2])))))

\* tokenize's while loop from pos on
rawTokens(src, pos, raw) ==
    IF pos > Len(src) THEN Lexed(raw, pos)
    ELSE Bind(scanToken(src, pos, raw), LAMBDA r :
         IF ~r.ok THEN r ELSE rawTokens(src, r.pos, r.raw))

\* ───────────────────────── the parser ──────────────────────────────────────
\* Parser.cpp over the token vector toks, pos counted from 1.  A parse function
\* yields Parsed(node, pos) - the node (or the vector) it built and the
\* position behind it - or ParseError, the exception that ends Parser::parse.
\* Left out, as no source of the model holds their tokens: decorators, class,
\* input, cout, import, raise and try statements, C-typed declarations, the
\* for-in forms, the two ternaries, slices, dict literals, comprehensions and
\* type hints or default values in parameter lists.

Parsed(node, pos) == [ok |-> TRUE, node |-> node, pos |-> pos, msg |-> ""]
ParseError(msg, pos) == [ok |-> FALSE, node |-> Null, pos |-> pos, msg |-> msg]

TupleLiteral(elements) == [k |-> "TupleLiteral", elements |-> elements]
UnaryExpr(op, operand) == [k |-> "UnaryExpr", op |-> op, operand |-> operand]

\* tokens[pos].type; the vector ends with EOF_TOKEN
tokenType(toks, p) == IF p <= Len(toks) THEN toks[p].type ELSE "EOF_TOKEN"
check(toks, p, t) == tokenType(toks, p) = t
atEnd(toks, p) == check(toks, p, "EOF_TOKEN")
\* match(t): the position behind an optional t
match(toks, p, t) == IF check(toks, p, t) THEN p + 1 ELSE p
skipNewlines(toks, p) == skipNewlineTokens(toks, p)

RECURSIVE skipTerminators(_, _)
\* while (check(NEWLINE) || check(SEMICOLON)) consume();
skipTerminators(toks, p) ==
    IF tokenType(toks, p) \in {"NEWLINE", "SEMICOLON"} THEN skipTerminators(toks, p + 1) ELSE p

RECURSIVE skipSemicolons(_, _)
skipSemicolons(toks, p) ==
    IF check(toks, p, "SEMICOLON") THEN skipSemicolons(toks, p + 1) ELSE p

RECURSIVE stod(_)
\* std::stod of a NUMBER token without a fraction, an exponent or a 0x prefix
stod(str) ==
    IF str = "" THEN 0
    ELSE 10 * stod(SubSeq(str, 1, Len(str) - 1)) + stoi(SubSeq(str, Len(str), Len(str)))

\* the operator tokens of parseOr, parseAnd, parseBitwise, parseEquality,
\* parseComparison, parseShift, parseAddSub and parseMulDiv, loosest first
BinaryLevels ==
    << {"OR", "OR_OR"}, {"AND", "AND_AND"}, {"BIT_AND", "BIT_OR", "BIT_XOR"},
       {"EQ", "NEQ", "STRICT_EQ", "STRICT_NEQ"}, {"LT", "GT", "LTE", "GTE", "IN"},
       {"LSHIFT", "RSHIFT"}, {"PLUS", "MINUS"},
       {"STAR", "SLASH", "PERCENT", "FLOOR_DIV"} >>

\* the op string these functions give the BinaryExpr
binaryOp(tok) ==
    CASE tok.type \in {"OR", "OR_OR"} -> "or"
      [] tok.type \in {"AND", "AND_AND"} -> "and"
      [] tok.type = "STRICT_EQ" -> "=="
      [] tok.type = "STRICT_NEQ" -> "!="
      [] tok.type = "IN" -> "in"
      [] OTHER -> tok.value

\* parseAssignment's lookahead from the first COMMA at scan: a run of
\* COMMA IDENTIFIER pairs ended by ASSIGN
RECURSIVE isUnpack(_, _)
isUnpack(toks, scan) ==
    IF ~check(toks, scan, "COMMA") THEN FALSE
    ELSE Bind(skipNewlines(toks, scan + 1), LAMBDA id :
         IF ~check(toks, id, "IDENTIFIER") THEN FALSE
         ELSE Bind(skipNewlines(toks, id + 1), LAMBDA next :
              IF check(toks, next, "ASSIGN") THEN TRUE ELSE isUnpack(toks, next)))

\* the targets after the first: while (match(COMMA)) { skipNewlines();
\* if (check(IDENTIFIER)) targets.push_back(consume().value); else break; }
RECURSIVE unpackTargets(_, _, _)
unpackTargets(toks, p, targets) ==
    IF ~check(toks, p, "COMMA") THEN Parsed(targets, p)
    ELSE Bind(skipNewlines(toks, p + 1), LAMBDA q :
         IF check(toks, q, "IDENTIFIER")
         THEN unpackTargets(toks, q + 1, Append(targets, Id(toks[q].value)))
         ELSE Parsed(targets, q))

\* parsePrimary's lookahead behind '(' for an arrow function's parameters:
\* () or a run of identifiers and commas, then ')' and FAT_ARROW
RECURSIVE arrowParamsAhead(_, _)
arrowParamsAhead(toks, p) ==
    IF ~check(toks, p, "IDENTIFIER") THEN FALSE
    ELSE Bind(skipNewlines(toks, p + 1), LAMBDA q :
         IF check(toks, q, "COMMA") THEN arrowParamsAhead(toks, q + 1)
         ELSE check(toks, q, "RPAREN")
              /\ check(toks, skipNewlines(toks, q + 1), "FAT_ARROW"))

isArrow(toks, p) ==
    Bind(skipNewlines(toks, p), LAMBDA q :
    IF check(toks, q, "RPAREN") THEN check(toks, skipNewlines(toks, q + 1), "FAT_ARROW")
    ELSE arrowParamsAhead(toks, q))

\* the loop that consumes an arrow function's parameters up to ')'
RECURSIVE arrowParams(_, _, _)
arrowParams(toks, p, params) ==
    IF check(toks, p, "RPAREN") \/ atEnd(toks, p) THEN Parsed(params, p)
    ELSE IF check(toks, p, "IDENTIFIER")
    THEN arrowParams(toks, match(toks, p + 1, "COMMA"), Append(params, toks[p].value))
    ELSE IF check(toks, p, "COMMA") THEN arrowParams(toks, p + 1, params)
    \* any other token is never consumed: the loop does not end
    ELSE ParseError("arrow parameters", p)

RECURSIVE parseStatement(_, _)
RECURSIVE returnTuple(_, _, _)
RECURSIVE argLoopPrint(_, _, _)
RECURSIVE printRest(_, _, _)
RECURSIVE statements(_, _, _, _)
RECURSIVE parseBlock(_, _)
RECURSIVE parseBodyOrStatement(_, _)
RECURSIVE parseForStmt(_, _)
RECURSIVE parseExpr(_, _)
RECURSIVE parseBinary(_, _, _)
RECURSIVE binaryLoop(_, _, _, _)
RECURSIVE parsePower(_, _)
RECURSIVE parseUnary(_, _)
RECURSIVE postfixLoop(_, _, _)
RECURSIVE parsePrimary(_, _)
RECURSIVE parseArrowFunction(_, _, _)
RECURSIVE parseArgList(_, _)
RECURSIVE argLoop(_, _, _)
RECURSIVE elementLoop(_, _, _, _)
RECURSIVE paramLoop(_, _, _)
RECURSIVE parseParamList(_, _)
RECURSIVE parseVarDecl(_, _, _)
RECURSIVE parseIfStmt(_, _)

\* Parser::parseAssignment (parseExpr returns it)
parseExpr(toks, p) ==
    Bind(parseBinary(toks, p, 1), LAMBDA l :
    IF ~l.ok THEN l
    ELSE IF check(toks, l.pos, "COMMA") /\ l.node.k = "Identifier" /\ isUnpack(toks, l.pos)
    THEN Bind(unpackTargets(toks, l.pos, <<l.node>>), LAMBDA t :
         IF ~check(toks, t.pos, "ASSIGN")
         THEN ParseError("Expected '=' in tuple unpacking", t.pos)
         ELSE Bind(parseExpr(toks, t.pos + 1), LAMBDA r :
              IF ~r.ok THEN r
              ELSE Parsed(AssignExpr("unpack", TupleLiteral(t.node), r.node), r.pos)))
    ELSE IF tokenType(toks, l.pos) \in {"ASSIGN", "PLUS_ASSIGN", "MINUS_ASSIGN",
                                        "STAR_ASSIGN", "SLASH_ASSIGN"}
    THEN Bind(parseExpr(toks, l.pos + 1), LAMBDA r :
         IF ~r.ok THEN r
         ELSE Parsed(AssignExpr(toks[l.pos].value, l.node, r.node), r.pos))
    ELSE l)

\* parseOr (level 1) ... parseMulDiv (level 8): a left operand of the next
\* level, then the loop over this level's operators
parseBinary(toks, p, level) ==
    IF level > Len(BinaryLevels) THEN parsePower(toks, p)
    ELSE Bind(parseBinary(toks, p, level + 1), LAMBDA l :
         IF ~l.ok THEN l ELSE binaryLoop(toks, l.node, l.pos, level))

binaryLoop(toks, left, p, level) ==
    IF level = 5 /\ check(toks, p, "NOT")
    THEN \* parseComparison: not in
         IF ~check(toks, p + 1, "IN") THEN ParseError("Expected 'in' after 'not'", p + 1)
         ELSE Bind(parseBinary(toks, p + 2, level + 1), LAMBDA r :
              IF ~r.ok THEN r
              ELSE binaryLoop(toks, BinaryExpr("not in", left, r.node), r.pos, level))
    ELSE IF tokenType(toks, p) \in BinaryLevels[level]
    THEN Bind(parseBinary(toks, p + 1, level + 1), LAMBDA r :
         IF ~r.ok THEN r
         ELSE binaryLoop(toks, BinaryExpr(binaryOp(toks[p]), left, r.node), r.pos, level))
    ELSE Parsed(left, p)

\* Parser::parsePower: right-associative
parsePower(toks, p) ==
    Bind(parseUnary(toks, p), LAMBDA l :
    IF ~l.ok \/ ~check(toks, l.pos, "POWER") THEN l
    ELSE Bind(parsePower(toks, l.pos + 1), LAMBDA r :
         IF ~r.ok THEN r ELSE Parsed(BinaryExpr("**", l.node, r.node), r.pos)))

\* Parser::parseUnary, and parsePostfix's call of parsePrimary
parseUnary(toks, p) ==
    CASE tokenType(toks, p) \in {"PLUS_PLUS", "MINUS_MINUS"} ->
            Bind(parseUnary(toks, p + 1), LAMBDA o :
            IF ~o.ok THEN o
            ELSE Parsed(AssignExpr(IF check(toks, p, "PLUS_PLUS") THEN "+=" ELSE "-=",
                                   o.node, Lit(Num(1))), o.pos))
      [] tokenType(toks, p) \in {"MINUS", "NOT", "BIT_NOT"} ->
            Bind(parseUnary(toks, p + 1), LAMBDA o :
            IF ~o.ok THEN o
            ELSE Parsed(UnaryExpr(CASE check(toks, p, "MINUS") -> "-"
                                    [] check(toks, p, "NOT") -> "not"
                                    [] OTHER -> "~", o.node), o.pos))
      [] check(toks, p, "BIT_AND") -> parseUnary(toks, p + 1)
      [] OTHER ->
            Bind(parsePrimary(toks, p), LAMBDA e :
            IF ~e.ok THEN e ELSE postfixLoop(toks, e.node, e.pos))

\* parsePostfix's loop; newlines are skipped only in front of a postfix token
postfixLoop(toks, expr, p) ==
    Bind(skipNewlines(toks, p), LAMBDA q :
    CASE check(toks, q, "PLUS_PLUS") ->
            postfixLoop(toks, AssignExpr("+=", expr, Lit(Num(1))), q + 1)
      [] check(toks, q, "MINUS_MINUS") ->
            postfixLoop(toks, AssignExpr("-=", expr, Lit(Num(1))), q + 1)
      [] check(toks, q, "LPAREN") ->
            Bind(parseArgList(toks, q), LAMBDA a :
            IF ~a.ok THEN a ELSE postfixLoop(toks, CallExpr(expr, a.node), a.pos))
      [] check(toks, q, "LBRACKET") ->
            Bind(parseExpr(toks, q + 1), LAMBDA i :
            IF ~i.ok THEN i
            ELSE IF ~check(toks, i.pos, "RBRACKET") THEN ParseError("Expected ']'", i.pos)
            ELSE postfixLoop(toks, IndexExpr(expr, i.node), i.pos + 1))
      [] check(toks, q, "DOT") ->
            IF ~check(toks, q + 1, "IDENTIFIER") THEN ParseError("Expected member name", q + 1)
            ELSE IF check(toks, q + 2, "LPAREN")
            THEN Bind(parseArgList(toks, q + 2), LAMBDA a :
                 IF ~a.ok THEN a
                 ELSE postfixLoop(toks, CallExpr(MemberExpr(expr, toks[q + 1].value), a.node),
                                  a.pos))
            ELSE postfixLoop(toks, MemberExpr(expr, toks[q + 1].value), q + 2)
      [] OTHER -> Parsed(expr, p))

\* Parser::parsePrimary
parsePrimary(toks, p) ==
    CASE check(toks, p, "NUMBER") -> Parsed(Lit(Num(stod(toks[p].value))), p + 1)
      [] check(toks, p, "STRING") -> Parsed(Lit(Str(toks[p].value)), p + 1)
      [] check(toks, p, "BOOL_TRUE") -> Parsed(Lit(Bool(TRUE)), p + 1)
      [] check(toks, p, "BOOL_FALSE") -> Parsed(Lit(Bool(FALSE)), p + 1)
      [] check(toks, p, "NIL") -> Parsed(Lit(Nil), p + 1)
      [] check(toks, p, "THIS") -> Parsed(Id("self"), p + 1)
      [] check(toks, p, "LBRACKET") ->
            Bind(skipNewlines(toks, p + 1), LAMBDA q :
            IF check(toks, q, "RBRACKET") THEN Parsed(ArrayLiteral(<<>>), q + 1)
            ELSE Bind(parseExpr(toks, q), LAMBDA first :
                 IF ~first.ok THEN first
                 ELSE Bind(elementLoop(toks, skipNewlines(toks, first.pos), <<first.node>>,
                                       "RBRACKET"), LAMBDA es :
                      IF ~es.ok THEN es
                      ELSE IF ~check(toks, es.pos, "RBRACKET")
                      THEN ParseError("Expected ']'", es.pos)
                      ELSE Parsed(ArrayLiteral(es.node), es.pos + 1))))
      [] tokenType(toks, p) \in {"FN", "FUNCTION", "DEF"} ->
            \* parseLambda
            Bind(parseParamList(toks, p + 1), LAMBDA ps :
            IF ~ps.ok THEN ps
            ELSE Bind(match(toks, ps.pos, "COLON"), LAMBDA c :
                 Bind(IF check(toks, c, "FAT_ARROW") THEN c + 1 ELSE match(toks, c, "ARROW"),
                      LAMBDA a :
                 Bind(parseBlock(toks, skipNewlines(toks, a)), LAMBDA body :
                 IF ~body.ok THEN body
                 ELSE Parsed(LambdaExpr(ps.node, body.node), body.pos)))))
      [] check(toks, p, "LPAREN") ->
            IF isArrow(toks, p + 1)
            THEN Bind(arrowParams(toks, skipNewlines(toks, p + 1), <<>>), LAMBDA ps :
                 IF ~ps.ok THEN ps
                 ELSE IF ~check(toks, ps.pos, "RPAREN") THEN ParseError("Expected ')'", ps.pos)
                 ELSE parseArrowFunction(toks, ps.pos + 1, ps.node))
            ELSE Bind(parseExpr(toks, skipNewlines(toks, p + 1)), LAMBDA e :
                 IF ~e.ok THEN e
                 ELSE Bind(skipNewlines(toks, e.pos), LAMBDA q :
                      IF check(toks, q, "COMMA")
                      THEN Bind(elementLoop(toks, q, <<e.node>>, "RPAREN"), LAMBDA es :
                           IF ~es.ok THEN es
                           ELSE IF ~check(toks, es.pos, "RPAREN")
                           THEN ParseError("Expected ')'", es.pos)
                           ELSE Parsed(TupleLiteral(es.node), es.pos + 1))
                      ELSE IF ~check(toks, q, "RPAREN") THEN ParseError("Expected ')'", q)
                      ELSE Parsed(e.node, q + 1)))
      [] check(toks, p, "IDENTIFIER") ->
            IF check(toks, skipNewlines(toks, p + 1), "FAT_ARROW")
            THEN parseArrowFunction(toks, p + 1, <<toks[p].value>>)
            ELSE Parsed(Id(toks[p].value), p + 1)
      [] tokenType(toks, p) \in {"INPUT", "PRINT", "SCAN", "PAYLOAD", "ENCRYPT", "DECRYPT",
                                 "HASH", "IMPORT"} ->
            Parsed(Id(toks[p].value), p + 1)
      [] OTHER -> ParseError("Unexpected token: '" \o toks[p].value \o "'", p)

\* the elements behind the first of an array or tuple literal:
\* while (match(COMMA)) { skipNewlines(); if (check(close)) break;
\*                        elements.push_back(parseExpr()); skipNewlines(); }
elementLoop(toks, p, elements, close) ==
    IF ~check(toks, p, "COMMA") THEN Parsed(elements, p)
    ELSE Bind(skipNewlines(toks, p + 1), LAMBDA q :
         IF check(toks, q, close) THEN Parsed(elements, q)
         ELSE Bind(parseExpr(toks, q), LAMBDA e :
              IF ~e.ok THEN e
              ELSE elementLoop(toks, skipNewlines(toks, e.pos), Append(elements, e.node),
                               close)))

\* Parser::parseArrowFunction, the parameters consumed, p at the arrow
parseArrowFunction(toks, p, params) ==
    IF tokenType(toks, p) \notin {"FAT_ARROW", "ARROW"}
    THEN ParseError("Expected '=>' or '->'", p)
    ELSE Bind(skipNewlines(toks, p + 1), LAMBDA q :
         IF tokenType(toks, q) \in {"LBRACE", "INDENT"}
         THEN Bind(parseBlock(toks, q), LAMBDA body :
              IF ~body.ok THEN body ELSE Parsed(LambdaExpr(params, body.node), body.pos))
         ELSE Bind(parseExpr(toks, q), LAMBDA e :
              IF ~e.ok THEN e
              ELSE Parsed(LambdaExpr(params, BlockStmt(<<ReturnStmt(e.node)>>)), e.pos)))

\* Parser::parseArgList, p at '('
parseArgList(toks, p) ==
    IF ~check(toks, p, "LPAREN") THEN ParseError("Expected '('", p)
    ELSE Bind(argLoop(toks, skipNewlines(toks, p + 1), <<>>), LAMBDA a :
         IF ~a.ok THEN a
         ELSE IF ~check(toks, a.pos, "RPAREN") THEN ParseError("Expected ')'", a.pos)
         ELSE Parsed(a.node, a.pos + 1))

\* one round of parseArgList's loop: name= of a keyword argument is skipped
\* when the argument begins with IDENTIFIER ASSIGN, then parseExpr
argLoop(toks, p, args) ==
    IF check(toks, p, "RPAREN") \/ atEnd(toks, p) THEN Parsed(args, p)
    ELSE Bind(IF check(toks, p, "IDENTIFIER")
                 /\ check(toks, skipNewlines(toks, p + 1), "ASSIGN")
              THEN skipNewlines(toks, skipNewlines(toks, p + 1) + 1) ELSE p, LAMBDA q :
         Bind(parseExpr(toks, q), LAMBDA e :
         IF ~e.ok THEN e
         ELSE Bind(skipNewlines(toks, e.pos), LAMBDA r :
              IF check(toks, r, "COMMA")
              THEN argLoop(toks, skipNewlines(toks, r + 1), Append(args, e.node))
              ELSE Parsed(Append(args, e.node), r))))

\* parseParamList's loop: a name (an identifier or this), then a comma or the end
paramLoop(toks, p, params) ==
    IF check(toks, p, "RPAREN") \/ atEnd(toks, p) THEN Parsed(params, p)
    ELSE IF tokenType(toks, p) \notin {"IDENTIFIER", "THIS"}
    THEN ParseError("Expected parameter name", p)
    ELSE IF check(toks, p + 1, "COMMA")
    THEN paramLoop(toks, p + 2, Append(params, toks[p].value))
    ELSE Parsed(Append(params, toks[p].value), p + 1)

\* Parser::parseParamList, p at '('
parseParamList(toks, p) ==
    IF ~check(toks, p, "LPAREN") THEN ParseError("Expected '('", p)
    ELSE Bind(paramLoop(toks, p + 1, <<>>), LAMBDA ps :
         IF ~ps.ok THEN ps
         ELSE IF ~check(toks, ps.pos, "RPAREN") THEN ParseError("Expected ')'", ps.pos)
         ELSE Parsed(ps.node, ps.pos + 1))

\* the statement loops of parse ("top"), of a brace block and of an indented
\* block: parseStatement and skipNewlines until the block's end
statements(toks, p, stmts, block) ==
    IF \/ atEnd(toks, p)
       \/ block = "brace" /\ check(toks, p, "RBRACE")
       \/ block = "indent" /\ tokenType(toks, p) \in {"DEDENT", "EXCEPT", "FINALLY",
                                                     "ELSE", "ELIF"}
    THEN Parsed(stmts, p)
    ELSE Bind(parseStatement(toks, p), LAMBDA s :
         IF ~s.ok THEN s
         ELSE statements(toks, skipNewlines(toks, s.pos), Append(stmts, s.node), block))

\* Parser::parseBlock
parseBlock(toks, p) ==
    CASE check(toks, p, "LBRACE") ->
            Bind(statements(toks, skipNewlines(toks, p + 1), <<>>, "brace"), LAMBDA b :
            IF ~b.ok THEN b
            ELSE IF ~check(toks, b.pos, "RBRACE") THEN ParseError("Expected '}'", b.pos)
            ELSE Parsed(BlockStmt(b.node), b.pos + 1))
      [] check(toks, p, "INDENT") ->
            Bind(statements(toks, skipNewlines(toks, p + 1), <<>>, "indent"), LAMBDA b :
            IF ~b.ok THEN b
            ELSE Parsed(BlockStmt(b.node), match(toks, b.pos, "DEDENT")))
      [] OTHER -> ParseError("Expected '{' or indented block", p)

\* Parser::parseBodyOrStatement
parseBodyOrStatement(toks, p) ==
    IF tokenType(toks, p) \in {"LBRACE", "INDENT"} THEN parseBlock(toks, p)
    ELSE Bind(parseStatement(toks, p), LAMBDA s :
         IF ~s.ok THEN s ELSE Parsed(BlockStmt(<<s.node>>), s.pos))

\* Parser::parseVarDecl, let or const consumed
parseVarDecl(toks, p, isConst) ==
    IF ~check(toks, p, "IDENTIFIER")
    THEN ParseError("Expected variable name (got '" \o toks[p].value \o "')", p)
    ELSE IF ~check(toks, p + 1, "ASSIGN")
    THEN Parsed(VarDecl(isConst, toks[p].value, Null), skipTerminators(toks, p + 1))
    ELSE Bind(parseExpr(toks, p + 2), LAMBDA e :
         IF ~e.ok THEN e
         ELSE Parsed(VarDecl(isConst, toks[p].value, e.node), skipTerminators(toks, e.pos)))

\* Parser::parseIfStmt, if or elif consumed
parseIfStmt(toks, p) ==
    Bind(parseExpr(toks, p), LAMBDA c :
    IF ~c.ok THEN c
    ELSE Bind(parseBodyOrStatement(toks, skipNewlines(toks, match(toks, c.pos, "COLON"))),
         LAMBDA then :
         IF ~then.ok THEN then
         ELSE Bind(skipNewlines(toks, then.pos), LAMBDA q :
              Bind(IF check(toks, q, "ELIF") THEN parseIfStmt(toks, q + 1)
                   ELSE IF ~check(toks, q, "ELSE") THEN Parsed(Null, q)
                   ELSE IF check(toks, skipNewlines(toks, q + 1), "IF")
                   THEN parseIfStmt(toks, skipNewlines(toks, q + 1) + 1)
                   ELSE parseBodyOrStatement(toks,
                            skipNewlines(toks, match(toks, skipNewlines(toks, q + 1), "COLON"))),
                   LAMBDA else :
              IF ~else.ok THEN else
              ELSE Parsed(IfStmt(c.node, then.node, else.node), else.pos)))))

\* Parser::parseForStmt, for consumed: the C-style form
\*   for (init; condition; post) body  =>  { init; while (condition) { body...; post } }
parseForStmt(toks, p) ==
    IF ~check(toks, p, "LPAREN") THEN ParseError("Expected variable in for loop", p)
    ELSE
    Bind(IF check(toks, p + 1, "SEMICOLON") THEN Parsed(Null, p + 1)
         ELSE IF tokenType(toks, p + 1) \in {"LET", "CONST"}
         THEN parseVarDecl(toks, p + 2, check(toks, p + 1, "CONST"))
         ELSE Bind(parseExpr(toks, p + 1), LAMBDA e :
              IF ~e.ok THEN e ELSE Parsed(ExprStmt(e.node), e.pos)), LAMBDA init :
    IF ~init.ok THEN init
    ELSE
    Bind(IF ~check(toks, skipSemicolons(toks, init.pos), "SEMICOLON")
         THEN parseExpr(toks, skipSemicolons(toks, init.pos))
         ELSE Parsed(Lit(Bool(TRUE)), skipSemicolons(toks, init.pos)), LAMBDA cond :
    IF ~cond.ok THEN cond
    ELSE
    Bind(IF check(toks, skipSemicolons(toks, cond.pos), "RPAREN")
         THEN Parsed(Null, skipSemicolons(toks, cond.pos))
         ELSE Bind(parseExpr(toks, skipSemicolons(toks, cond.pos)), LAMBDA e :
              IF ~e.ok THEN e ELSE Parsed(ExprStmt(e.node), e.pos)), LAMBDA post :
    IF ~post.ok THEN post
    ELSE IF ~check(toks, post.pos, "RPAREN") THEN ParseError("Expected ')'", post.pos)
    ELSE
    Bind(parseBodyOrStatement(toks, skipNewlines(toks, match(toks, post.pos + 1, "COLON"))),
         LAMBDA rawBody :
    IF ~rawBody.ok THEN rawBody
    ELSE Parsed(BlockStmt(Opt(init.node) \o
                          <<WhileStmt(cond.node,
                                      BlockStmt(rawBody.node.statements \o Opt(post.node)))>>),
                rawBody.pos)))))

\* parseReturnStmt's tuple: while (match(COMMA)) { if at the statement's end
\* break; elements.push_back(parseExpr()); }
returnTuple(toks, p, elements) ==
    IF ~check(toks, p, "COMMA") THEN Parsed(elements, p)
    ELSE IF tokenType(toks, p + 1) \in {"NEWLINE", "SEMICOLON", "EOF_TOKEN"}
    THEN Parsed(elements, p + 1)
    ELSE Bind(parseExpr(toks, p + 1), LAMBDA e :
         IF ~e.ok THEN e ELSE returnTuple(toks, e.pos, Append(elements, e.node)))

\* parsePrintStmt's loop between the parentheses
argLoopPrint(toks, p, args) ==
    IF check(toks, p, "RPAREN") \/ atEnd(toks, p) THEN Parsed(args, p)
    ELSE Bind(parseExpr(toks, p), LAMBDA e :
         IF ~e.ok THEN e
         ELSE Bind(skipNewlines(toks, e.pos), LAMBDA r :
              IF check(toks, r, "COMMA")
              THEN argLoopPrint(toks, skipNewlines(toks, r + 1), Append(args, e.node))
              ELSE Parsed(Append(args, e.node), r)))

\* parsePrintStmt without parentheses: while (match(COMMA)) args.push_back(parseExpr());
printRest(toks, p, args) ==
    IF ~check(toks, p, "COMMA") THEN Parsed(args, p)
    ELSE Bind(parseExpr(toks, p + 1), LAMBDA e :
         IF ~e.ok THEN e ELSE printRest(toks, e.pos, Append(args, e.node)))

\* PrintStmt{args, newline}: the statement of one argument is the model's
\* PrintStmt; with more the node keeps the vector
printStmt(args) ==
    IF Len(args) = 1 THEN PrintStmt(args[1]) ELSE [k |-> "PrintStmt", args |-> args]

\* Parser::parseStatement
parseStatement(toks, p0) ==
    Bind(skipNewlines(toks, p0), LAMBDA p :
    CASE tokenType(toks, p) \in {"LET", "CONST"} ->
            parseVarDecl(toks, p + 1, check(toks, p, "CONST"))
      [] tokenType(toks, p) \in {"FN", "DEF", "FUNCTION"} ->
            IF check(toks, p + 1, "IDENTIFIER")
            THEN \* parseFunctionDecl
                 Bind(parseParamList(toks, p + 2), LAMBDA ps :
                 IF ~ps.ok THEN ps
                 ELSE Bind(parseBlock(toks, skipNewlines(toks, match(toks, ps.pos, "COLON"))),
                      LAMBDA body :
                      IF ~body.ok THEN body
                      ELSE Parsed(FunctionDecl(toks[p + 1].value, ps.node, body.node),
                                  body.pos)))
            ELSE Bind(parsePrimary(toks, p), LAMBDA lam :
                 IF ~lam.ok THEN lam
                 ELSE Parsed(ExprStmt(lam.node), skipTerminators(toks, lam.pos)))
      [] check(toks, p, "IF") -> parseIfStmt(toks, p + 1)
      [] check(toks, p, "WHILE") ->
            Bind(parseExpr(toks, p + 1), LAMBDA c :
            IF ~c.ok THEN c
            ELSE Bind(parseBodyOrStatement(toks,
                          skipNewlines(toks, match(toks, c.pos, "COLON"))), LAMBDA body :
                 IF ~body.ok THEN body ELSE Parsed(WhileStmt(c.node, body.node), body.pos)))
      [] check(toks, p, "FOR") -> parseForStmt(toks, p + 1)
      [] check(toks, p, "RETURN") ->
            IF tokenType(toks, p + 1) \in {"NEWLINE", "SEMICOLON", "EOF_TOKEN"}
            THEN Parsed(ReturnStmt(Null), skipTerminators(toks, p + 1))
            ELSE Bind(parseExpr(toks, p + 1), LAMBDA e :
                 IF ~e.ok THEN e
                 ELSE IF ~check(toks, e.pos, "COMMA")
                 THEN Parsed(ReturnStmt(e.node), skipTerminators(toks, e.pos))
                 ELSE Bind(returnTuple(toks, e.pos, <<e.node>>), LAMBDA t :
                      IF ~t.ok THEN t
                      ELSE Parsed(ReturnStmt(TupleLiteral(t.node)),
                                  skipTerminators(toks, t.pos))))
      [] check(toks, p, "PRINT") ->
            \* parsePrintStmt: print(args) or print args
            IF check(toks, p + 1, "LPAREN")
            THEN Bind(argLoopPrint(toks, skipNewlines(toks, p + 2), <<>>), LAMBDA a :
                 IF ~a.ok THEN a
                 ELSE IF ~check(toks, a.pos, "RPAREN") THEN ParseError("Expected ')'", a.pos)
                 ELSE Parsed(printStmt(a.node), skipTerminators(toks, a.pos + 1)))
            ELSE Bind(parseExpr(toks, p + 1), LAMBDA e :
                 IF ~e.ok THEN e
                 ELSE Bind(printRest(toks, e.pos, <<e.node>>), LAMBDA a :
                      IF ~a.ok THEN a
                      ELSE Parsed(printStmt(a.node), skipTerminators(toks, a.pos))))
      [] check(toks, p, "BREAK") -> Parsed(BreakStmt, skipTerminators(toks, p + 1))
      [] check(toks, p, "CONTINUE") -> Parsed(ContinueStmt, skipTerminators(toks, p + 1))
      [] check(toks, p, "LBRACE") -> parseBlock(toks, p)
      [] OTHER ->
            \* parseExprStmt
            Bind(parseExpr(toks, p), LAMBDA e :
            IF ~e.ok THEN e ELSE Parsed(ExprStmt(e.node), skipTerminators(toks, e.pos))))

\* Parser::parse: the top-level block, or the ParseError
parse(toks) ==
    Bind(statements(toks, skipNewlines(toks, 1), <<>>, "top"), LAMBDA b :
    IF ~b.ok THEN b ELSE Parsed(BlockStmt(b.node), b.pos))

\* ───────────────────────── programs ────────────────────────────────────────
\* The ASTs handed to execute(): what Parser::parse builds for the sources
\* sketched in the comments.  The root and every body are BlockStmts
\* (parseBlock / parseBodyOrStatement).

MaxHandlers == 2        \* except clauses of one try statement

S(str) == Lit(Str(str))
N(i) == Lit(Num(i))
P(e) == PrintStmt(e)
B(stmts) == BlockStmt(stmts)
Call(f, args) == ExprStmt(CallExpr(f, args))
Assign(target, value) == ExprStmt(AssignExpr("=", target, value))

SeqsUpTo(set, n) == UNION {[1..m -> set] : m \in 0..n}

\* the statement that leaves a body: nothing, raise "a" (raise "b" in a
\* handler), a NameError, or a signal
ExitStmt(x) ==
    CASE x = "normal" -> Null
      [] x = "raise" -> RaiseStmt(S("a"))
      [] x = "reraise" -> RaiseStmt(S("b"))
      [] x = "name" -> P(Id("undefined"))
      [] x = "return" -> ReturnStmt(N(1))
      [] x = "break" -> BreakStmt
      [] OTHER -> ContinueStmt

\* where a statement st runs:
\*   top       v = 0; st; print(v)
\*   function  v = 0; fn f() { st; print("f") }; print(f()); print(v)
\*   while     v = 0; n = 1; while (n) { n -= 1; st; print("w") }; print(v)
\*   for       v = 0; for i in [1, 2] { st; print("l") }; print(v)
In(ctx, st) ==
    LET pre == <<VarDecl(FALSE, "v", N(0))>>
        post == <<P(Id("v"))>>
    IN CASE ctx = "top" -> B(pre \o <<st>> \o post)
         [] ctx = "function" ->
               B(pre \o <<FunctionDecl("f", <<>>, B(<<st, P(S("f"))>>)),
                          P(CallExpr(Id("f"), <<>>))>> \o post)
         [] ctx = "while" ->
               B(pre \o <<VarDecl(FALSE, "n", N(1)),
                          WhileStmt(Id("n"),
                              B(<<ExprStmt(AssignExpr("-=", Id("n"), N(1))), st,
                                  P(S("w"))>>))>> \o post)
         [] OTHER ->
               B(pre \o <<ForStmt("i", "", ArrayLiteral(<<N(1), N(2)>>),
                              B(<<st, P(S("l"))>>))>> \o post)

\* try { exit; print("b") } except T1 [as alias] { print(alias | "h"); hexit } ...
\* [finally { print("f") }]
TryOf(exit, types, alias, hexit, fin, line) ==
    TryStmt(B(Opt(ExitStmt(exit)) \o <<P(S("b"))>>),
            [i \in DOMAIN types |->
                ExceptClause(types[i], alias,
                    B(<<P(IF alias = "" THEN S("h") ELSE Id(alias))>> \o Opt(ExitStmt(hexit))))],
            IF fin THEN B(<<P(S("fin"))>>) ELSE Null,
            line)

ErrorTypes == {"", "RuntimeError", "NameError", "Error"}
CatchAllTypes == {"", "Exception", "Error"}

\* errors raised in a try body, at top level and inside a function
ErrorProgs ==
    {In(ctx, TryOf(exit, types, alias, hexit, fin, 1)) :
        ctx \in {"top", "function"}, exit \in {"normal", "raise", "name"},
        types \in SeqsUpTo(ErrorTypes, MaxHandlers), alias \in {"", "e", "v"},
        hexit \in {"normal", "reraise"}, fin \in BOOLEAN}

\* signals leaving a try body whose handlers catch everything
SignalProgs ==
    {In(ctx, TryOf(exit, types, "", "normal", fin, 1)) :
        ctx \in {"top", "function", "while", "for"},
        exit \in {"return", "break", "continue"},
        types \in SeqsUpTo(CatchAllTypes, MaxHandlers), fin \in BOOLEAN}

\* Scenario D:  try { raise Name("bad") } except Name as e { print(e) }
\*              finally { print("done") }
ScenarioD(name) ==
    B(<<TryStmt(B(<<RaiseStmt(CallExpr(Id(name), <<S("bad")>>))>>),
                <<ExceptClause(name, "e", B(<<P(Id("e"))>>))>>,
                B(<<P(S("done"))>>), 1)>>)

ScenarioDProgs == {ScenarioD(name) : name \in ExcNames}

\* a construct whose body is left by exit x:
\*   block     { t = 1; x }
\*   if        if (true) { x }
\*   while     n = 1; while (n) { n -= 1; x }
\*   for       for i in [1, 2] { x }
\*   call      fn g(p) { x }; g(1)
\*   method    class K { m(self) { x } }; o = K(); o.m()
\*   ctor      class K { init(self) { x } }; o = K()
\*   listcomp  fn g(p) { x; return p }; r = [g(i) for i in [1, 2]]; print(r)
\*   compcond  fn g(p) { x; return p }; r = [i for i in "ab" if g(i)]; print(r)
Construct(c, x) ==
    LET E == Opt(ExitStmt(x))
        g == FunctionDecl("g", <<"p">>, B(E \o <<ReturnStmt(Id("p"))>>))
        one2 == ArrayLiteral(<<N(1), N(2)>>)
    IN CASE c = "block" -> <<B(<<VarDecl(FALSE, "t", N(1))>> \o E)>>
         [] c = "if" -> <<IfStmt(Lit(Bool(TRUE)), B(E), Null)>>
         [] c = "while" ->
               <<VarDecl(FALSE, "n", N(1)),
                 WhileStmt(Id("n"), B(<<ExprStmt(AssignExpr("-=", Id("n"), N(1)))>> \o E))>>
         [] c = "for" -> <<ForStmt("i", "", one2, B(E))>>
         [] c = "call" ->
               <<FunctionDecl("g", <<"p">>, B(E)), Call(Id("g"), <<N(1)>>)>>
         [] c = "method" ->
               <<ClassDecl("K", "", <<FunctionDecl("m", <<"self">>, B(E))>>),
                 VarDecl(FALSE, "o", CallExpr(Id("K"), <<>>)),
                 Call(MemberExpr(Id("o"), "m"), <<>>)>>
         [] c = "ctor" ->
               <<ClassDecl("K", "", <<FunctionDecl("init", <<"self">>, B(E))>>),
                 VarDecl(FALSE, "o", CallExpr(Id("K"), <<>>))>>
         [] c = "listcomp" ->
               <<g, VarDecl(FALSE, "r",
                        ListComp(CallExpr(Id("g"), <<Id("i")>>), <<"i">>, one2, Null)),
                 P(Id("r"))>>
         [] OTHER ->
               <<g, VarDecl(FALSE, "r",
                        ListComp(Id("i"), <<"i">>, S("ab"),
                                 CallExpr(Id("g"), <<Id("i")>>))),
                 P(Id("r"))>>

Constructs ==
    {"block", "if", "while", "for", "call", "method", "ctor", "listcomp", "compcond"}
Exits == {"normal", "raise", "name", "return", "break", "continue"}

\* ctx: try { construct; print("b") } except { print("h") } [finally { print("fin") }]
ConstructProgs ==
    {In(ctx, TryStmt(B(Construct(c, x) \o <<P(S("b"))>>),
                     <<ExceptClause("", "", B(<<P(S("h"))>>))>>,
                     IF fin THEN B(<<P(S("fin"))>>) ELSE Null, 2)) :
        ctx \in {"top", "function", "while", "for"}, c \in Constructs, x \in Exits,
        fin \in BOOLEAN}

MaxParams == 2          \* parameters of the called function
MaxArgs == 3            \* arguments of the call

ParamNames == <<"p1", "p2", "p3", "p4", "p5">>
\* v = "g"; fn f(p1..) { print(v); print(p1).. ; ret }
\* fn h() { v = "h"; print(f(1, 2, ..)) }; h()
CallProg(np, na, ret) ==
    B(<<VarDecl(FALSE, "v", S("g")),
        FunctionDecl("f", SubSeq(ParamNames, 1, np),
            B(<<P(Id("v"))>> \o [i \in 1..np |-> P(Id(ParamNames[i]))] \o
              (CASE ret = "end" -> <<>>
                 [] ret = "bare" -> <<ReturnStmt(Null)>>
                 [] ret = "value" -> <<ReturnStmt(N(7))>>
                 [] OTHER -> <<ReturnStmt(Id("v"))>>))),
        FunctionDecl("h", <<>>,
            B(<<VarDecl(FALSE, "v", S("h")),
                P(CallExpr(Id("f"), [i \in 1..na |-> N(i)]))>>)),
        Call(Id("h"), <<>>)>>)

CallProgs ==
    {CallProg(np, na, ret) :
        np \in 0..MaxParams, na \in 0..MaxArgs, ret \in {"end", "bare", "value", "name"}}

MaxCalls == 2           \* calls of the incrementing closure
MaxItems == 2           \* elements of the array a for-in loop walks

Incr == LambdaExpr(<<>>, B(<<ExprStmt(AssignExpr("+=", Id("n"), N(1)))>>))
Getter(name) == LambdaExpr(<<>>, B(<<ReturnStmt(Id(name))>>))

\* n = 0; inc = fn() { n += 1 }; get = fn() { return n }
\* inc() k times; print(get()); print(n)
CounterProg(k) ==
    B(<<VarDecl(FALSE, "n", N(0)), VarDecl(FALSE, "inc", Incr),
        VarDecl(FALSE, "get", Getter("n"))>> \o
      [i \in 1..k |-> Call(Id("inc"), <<>>)] \o
      <<P(CallExpr(Id("get"), <<>>)), P(Id("n"))>>)

\* fn mk() { n = 0; inc = ..; get = ..; return {"inc": inc, "get": get} }
\* c = mk(); d = mk(); c.inc() k times; print(c.get()); print(d.get())
MakerProg(k) ==
    B(<<FunctionDecl("mk", <<>>,
            B(<<VarDecl(FALSE, "n", N(0)), VarDecl(FALSE, "inc", Incr),
                VarDecl(FALSE, "get", Getter("n")),
                ReturnStmt(DictLiteral(<<<<S("inc"), Id("inc")>>,
                                         <<S("get"), Id("get")>>>>))>>)),
        VarDecl(FALSE, "c", CallExpr(Id("mk"), <<>>)),
        VarDecl(FALSE, "d", CallExpr(Id("mk"), <<>>))>> \o
      [i \in 1..k |-> Call(MemberExpr(Id("c"), "inc"), <<>>)] \o
      <<P(CallExpr(MemberExpr(Id("c"), "get"), <<>>)),
        P(CallExpr(MemberExpr(Id("d"), "get"), <<>>))>>)

\* gs = []; ss = []
\* for x in [1..m] { g = fn() { return x }; s = fn() { x += 10 }; gs.push(g); ss.push(s) }
\* ss[j]()  (when j >= 0);  print(gs[0]()); .. print(gs[m-1]())
LoopProg(m, j) ==
    B(<<VarDecl(FALSE, "gs", ArrayLiteral(<<>>)), VarDecl(FALSE, "ss", ArrayLiteral(<<>>)),
        ForStmt("x", "", ArrayLiteral([i \in 1..m |-> N(i)]),
            B(<<VarDecl(FALSE, "g", Getter("x")),
                VarDecl(FALSE, "s",
                    LambdaExpr(<<>>, B(<<ExprStmt(AssignExpr("+=", Id("x"), N(10)))>>))),
                Call(MemberExpr(Id("gs"), "push"), <<Id("g")>>),
                Call(MemberExpr(Id("ss"), "push"), <<Id("s")>>)>>))>> \o
      (IF j >= 0 THEN <<Call(IndexExpr(Id("ss"), N(j)), <<>>)>> ELSE <<>>) \o
      [i \in 1..m |-> P(CallExpr(IndexExpr(Id("gs"), N(i - 1)), <<>>))])

CounterProgs == {CounterProg(k) : k \in 0..MaxCalls}
MakerProgs == {MakerProg(k) : k \in 0..MaxCalls}
LoopProgs == UNION {{LoopProg(m, j) : j \in -1..(m - 1)} : m \in 1..MaxItems}
ClosureProgs == CounterProgs \cup MakerProgs \cup LoopProgs

\* a = [1] | {"k": 1} | K();  a second holder of a's value;  an in-place
\* mutation through that holder;  print(what a shows)
\*   holders    direct  b = a            assign  b = nil; b = a
\*              param   fn f(p) { mutate p }; f(a)
\*              element c = [a] (c[0])   field   c = {"x": a} (c.x)
\*   mutations  push(2), pop(), h[0] = 9 | h["k"] = 9, set("j", 2), delete("k"), h.k = 9
Mutate(h, kind, mut) ==
    CASE mut = "push" -> Call(MemberExpr(h, "push"), <<N(2)>>)
      [] mut = "pop" -> Call(MemberExpr(h, "pop"), <<>>)
      [] mut = "index" ->
            ExprStmt(AssignExpr("=", IndexExpr(h, IF kind = "array" THEN N(0) ELSE S("k")), N(9)))
      [] mut = "set" -> Call(MemberExpr(h, "set"), <<S("j"), N(2)>>)
      [] mut = "delete" -> Call(MemberExpr(h, "delete"), <<S("k")>>)
      [] OTHER -> ExprStmt(AssignExpr("=", MemberExpr(h, "k"), N(9)))

Probe(kind, mut) ==
    CASE kind = "instance" -> P(MemberExpr(Id("a"), "k"))
      [] mut = "set" -> P(IndexExpr(Id("a"), S("j")))
      [] OTHER -> P(Id("a"))

\* what the probe prints when the mutation reached a's backing store
Shown(kind, mut) ==
    CASE kind = "array" /\ mut = "push" -> "[1, 2]"
      [] kind = "array" /\ mut = "pop" -> "[]"
      [] kind = "array" -> "[9]"
      [] kind = "dict" /\ mut = "set" -> "2"
      [] kind = "dict" /\ mut = "delete" -> "{}"
      [] kind = "dict" -> "{\"k\": 9}"
      [] OTHER -> "9"

AliasProg(kind, mut, via) ==
    LET decl == CASE kind = "array" -> <<VarDecl(FALSE, "a", ArrayLiteral(<<N(1)>>))>>
                  [] kind = "dict" ->
                        <<VarDecl(FALSE, "a", DictLiteral(<<<<S("k"), N(1)>>>>))>>
                  [] OTHER -> <<ClassDecl("K", "", <<>>),
                                VarDecl(FALSE, "a", CallExpr(Id("K"), <<>>))>>
        use == CASE via = "direct" ->
                      <<VarDecl(FALSE, "b", Id("a")), Mutate(Id("b"), kind, mut)>>
                 [] via = "assign" ->
                      <<VarDecl(FALSE, "b", Lit(Nil)), Assign(Id("b"), Id("a")),
                        Mutate(Id("b"), kind, mut)>>
                 [] via = "param" ->
                      <<FunctionDecl("f", <<"p">>, B(<<Mutate(Id("p"), kind, mut)>>)),
                        Call(Id("f"), <<Id("a")>>)>>
                 [] via = "element" ->
                      <<VarDecl(FALSE, "c", ArrayLiteral(<<Id("a")>>)),
                        Mutate(IndexExpr(Id("c"), N(0)), kind, mut)>>
                 [] OTHER ->
                      <<VarDecl(FALSE, "c", DictLiteral(<<<<S("x"), Id("a")>>>>)),
                        Mutate(MemberExpr(Id("c"), "x"), kind, mut)>>
    IN B(decl \o use \o <<Probe(kind, mut)>>)

Mutations(kind) ==
    CASE kind = "array" -> {"push", "pop", "index"}
      [] kind = "dict" -> {"set", "delete", "index", "member"}
      [] OTHER -> {"member"}

Kinds == {"array", "dict", "instance"}
Holders == {"direct", "assign", "param", "element", "field"}
AliasProgs ==
    UNION {{AliasProg(kind, mut, via) : mut \in Mutations(kind), via \in Holders} :
              kind \in Kinds}

\* class A { [init(lead, p, q) { self.x = p; this.z = q; print("A"); [return 5] }] }
\* class B extends A { [init(lead, p) { self.y = p; print("B"); [return 5] }] }
\* o = B(1, .., na); o2 = B(1, .., na); print(o)
InitDecl(lead, params, fields, mark, ret) ==
    FunctionDecl("init", lead \o params,
        B(<<Assign(MemberExpr(Id("self"), fields[1]), Id(params[1]))>> \o
          [i \in 1..(Len(params) - 1) |->
              Assign(MemberExpr(Id("this"), fields[i + 1]), Id(params[i + 1]))] \o
          <<P(S(mark))>> \o (IF ret THEN <<ReturnStmt(N(5))>> ELSE <<>>)))

ClassProg(ia, ib, lead, na, ret) ==
    B(<<ClassDecl("A", "",
            IF ia THEN <<InitDecl(lead, <<"p", "q">>, <<"x", "z">>, "A", ret)>> ELSE <<>>),
        ClassDecl("B", "A",
            IF ib THEN <<InitDecl(lead, <<"p">>, <<"y">>, "B", ret)>> ELSE <<>>),
        VarDecl(FALSE, "o", CallExpr(Id("B"), [i \in 1..na |-> N(i)])),
        VarDecl(FALSE, "o2", CallExpr(Id("B"), [i \in 1..na |-> N(i)])),
        P(Id("o"))>>)

Leads == {<<>>, <<"self">>, <<"this">>}

ClassProgs ==
    {ClassProg(ia, ib, lead, na, ret) :
        ia \in BOOLEAN, ib \in BOOLEAN, lead \in Leads, na \in 0..MaxParams,
        ret \in BOOLEAN}

\* class A { [kind(self, p) { self.f = p; print("A"); return "rA" }] }
\* class B extends A { [kind(self, p) { self.f = p; print("B"); return "rB" }] }
\* class C [extends B] { kind(self, p) { print("C"); r = super(p) | super.m(p); print(r) } }
\* o = C(7)            (kind = init)
\* o = C(); o.m(7)     (kind = m)
SuperDef(kind, mark) ==
    FunctionDecl(kind, <<"self", "p">>,
        B(<<Assign(MemberExpr(Id("self"), "f"), Id("p")), P(S(mark)),
            ReturnStmt(S("r" \o mark))>>))

SuperProg(kind, da, db, based) ==
    B(<<ClassDecl("A", "", IF da THEN <<SuperDef(kind, "A")>> ELSE <<>>),
        ClassDecl("B", "A", IF db THEN <<SuperDef(kind, "B")>> ELSE <<>>),
        ClassDecl("C", IF based THEN "B" ELSE "",
            <<FunctionDecl(kind, <<"self", "p">>,
                B(<<P(S("C")),
                    VarDecl(FALSE, "r",
                        CallExpr(SuperExpr(IF kind = "init" THEN "" ELSE kind),
                                 <<Id("p")>>)),
                    P(Id("r"))>>))>>)>> \o
      (IF kind = "init" THEN <<VarDecl(FALSE, "o", CallExpr(Id("C"), <<N(7)>>))>>
       ELSE <<VarDecl(FALSE, "o", CallExpr(Id("C"), <<>>)),
              Call(MemberExpr(Id("o"), "m"), <<N(7)>>)>>))

SuperProgs ==
    {SuperProg(kind, da, db, based) :
        kind \in {"init", "m"}, da \in BOOLEAN, db \in BOOLEAN, based \in BOOLEAN}

\* fn g() { print("g") }
\* class A { [m(self) { print("A"); return "rA" }] }    B extends A, C extends B alike
\* o = C(); [o.m = g | o.m = 1]; r = o.m(); print(r)
MethodDef(mark) ==
    FunctionDecl("m", <<"self">>, B(<<P(S(mark)), ReturnStmt(S("r" \o mark))>>))

MethodProg(da, db, dc, field) ==
    B(<<FunctionDecl("g", <<>>, B(<<P(S("g"))>>)),
        ClassDecl("A", "", IF da THEN <<MethodDef("A")>> ELSE <<>>),
        ClassDecl("B", "A", IF db THEN <<MethodDef("B")>> ELSE <<>>),
        ClassDecl("C", "B", IF dc THEN <<MethodDef("C")>> ELSE <<>>),
        VarDecl(FALSE, "o", CallExpr(Id("C"), <<>>))>> \o
      (CASE field = "fn" -> <<Assign(MemberExpr(Id("o"), "m"), Id("g"))>>
         [] field = "num" -> <<Assign(MemberExpr(Id("o"), "m"), N(1))>>
         [] OTHER -> <<>>) \o
      <<VarDecl(FALSE, "r", CallExpr(MemberExpr(Id("o"), "m"), <<>>)), P(Id("r"))>>)

MethodProgs ==
    {MethodProg(da, db, dc, field) :
        da \in BOOLEAN, db \in BOOLEAN, dc \in BOOLEAN, field \in {"none", "fn", "num"}}

\* fn f() { }; class K { }
\* a = [1, .., n]; x = <a value of the kind>; a.push(x); r = a.pop()
\* print(r == x); print(a)
ValueOf(kind) ==
    CASE kind = "nil" -> Lit(Nil)
      [] kind = "number" -> N(5)
      [] kind = "bool" -> Lit(Bool(FALSE))
      [] kind = "string" -> S("s")
      [] kind = "array" -> ArrayLiteral(<<N(9)>>)
      [] kind = "dict" -> DictLiteral(<<>>)
      [] kind = "function" -> Id("f")
      [] kind = "instance" -> CallExpr(Id("K"), <<>>)
      [] kind = "class" -> Id("K")
      [] OTHER -> Id("a")

PushPopProg(n, kind) ==
    B(<<FunctionDecl("f", <<>>, B(<<>>)),
        ClassDecl("K", "", <<>>),
        VarDecl(FALSE, "a", ArrayLiteral([i \in 1..n |-> N(i)])),
        VarDecl(FALSE, "x", ValueOf(kind)),
        Call(MemberExpr(Id("a"), "push"), <<Id("x")>>),
        VarDecl(FALSE, "r", CallExpr(MemberExpr(Id("a"), "pop"), <<>>)),
        P(BinaryExpr("==", Id("r"), Id("x"))),
        P(Id("a"))>>)

Primitives == {"nil", "number", "bool", "string"}
ValueKinds ==
    Primitives \cup {"array", "dict", "function", "instance", "class", "itself"}

PushPopProgs == {PushPopProg(n, kind) : n \in 0..MaxItems, kind \in ValueKinds}

\* class A { [__str__(self) { return "custom" }] }; class B extends A { }
\* o = B(); then one of
\*   print(o)    s = str(o); print(s)    print("s:" + o)    print([o])
StrProg(ds, how) ==
    B(<<ClassDecl("A", "",
            IF ds THEN <<FunctionDecl("__str__", <<"self">>, B(<<ReturnStmt(S("custom"))>>))>>
            ELSE <<>>),
        ClassDecl("B", "A", <<>>),
        VarDecl(FALSE, "o", CallExpr(Id("B"), <<>>))>> \o
      (CASE how = "print" -> <<P(Id("o"))>>
         [] how = "str" -> <<VarDecl(FALSE, "s", CallExpr(Id("str"), <<Id("o")>>)), P(Id("s"))>>
         [] how = "concat" -> <<P(BinaryExpr("+", S("s:"), Id("o")))>>
         [] OTHER -> <<P(ArrayLiteral(<<Id("o")>>))>>))

Stringifiers == {"print", "str", "concat", "array"}
StrProgs == {StrProg(ds, how) : ds \in BOOLEAN, how \in Stringifiers}

\* [let x = 5 | const x = 5]; then x op v in a scope of its own - a nested
\* block, or the body of a function that is called; then print(x).
\* x++ / ++x parse to AssignExpr{"+=", x, 1} and x-- / --x to
\* AssignExpr{"-=", x, 1} (Parser::parseUnary, parsePostfix).
AssignOps == {"=", "+=", "-=", "*=", "/="}
Outers == {"none", "let", "const"}
AssignProg(outer, op, where, v) ==
    B((IF outer = "none" THEN <<>> ELSE <<VarDecl(outer = "const", "x", N(5))>>) \o
      (IF where = "block"
       THEN <<B(<<ExprStmt(AssignExpr(op, Id("x"), N(v)))>>)>>
       ELSE <<FunctionDecl("f", <<>>, B(<<ExprStmt(AssignExpr(op, Id("x"), N(v)))>>)),
              ExprStmt(CallExpr(Id("f"), <<>>))>>) \o
      <<P(Id("x"))>>)

AssignProgs ==
    {AssignProg(outer, op, where, v) :
        outer \in Outers, op \in AssignOps, where \in {"block", "function"}, v \in 1..2}

\* const x = 5; then one statement that would bind x anew in the same scope:
\* an assignment, a compound assignment, a let or const of x, a function or
\* class named x, or a handler whose alias is x; then print(x)
Rebinders == {"assign", "compound", "let", "const", "fn", "class", "alias"}
Rebinding(how) ==
    CASE how = "assign" -> ExprStmt(AssignExpr("=", Id("x"), N(6)))
      [] how = "compound" -> ExprStmt(AssignExpr("+=", Id("x"), N(6)))
      [] how = "let" -> VarDecl(FALSE, "x", N(6))
      [] how = "const" -> VarDecl(TRUE, "x", N(6))
      [] how = "fn" -> FunctionDecl("x", <<>>, B(<<ReturnStmt(N(6))>>))
      [] how = "class" -> ClassDecl("x", "", <<>>)
      [] OTHER -> TryStmt(B(<<RaiseStmt(S("e"))>>),
                          <<ExceptClause("", "x", B(<<>>))>>, Null, 1)
ConstProg(how) == B(<<VarDecl(TRUE, "x", N(5)), Rebinding(how), P(Id("x"))>>)
ConstProgs == {ConstProg(how) : how \in Rebinders}

\* class A { init(self) { print("A") } }
\* class B extends A { init(self) { print("B"); super() } }     C extends B alike
\* o = <the last class>()
MaxClasses == 3
ClassNames == <<"A", "B", "C", "D", "E">>
ChainInit(i) ==
    FunctionDecl("init", <<"self">>,
        B(<<P(S(ClassNames[i]))>> \o
          (IF i > 1 THEN <<Call(SuperExpr(""), <<>>)>> ELSE <<>>)))
ChainClass(i) ==
    ClassDecl(ClassNames[i], IF i > 1 THEN ClassNames[i - 1] ELSE "", <<ChainInit(i)>>)
ChainProg(n) ==
    B([i \in 1..n |-> ChainClass(i)] \o
      <<VarDecl(FALSE, "o", CallExpr(Id(ClassNames[n]), <<>>))>>)
ChainProgs == {ChainProg(n) : n \in 1..MaxClasses}

\* main.cpp runFile: Lexer lexer(source); Parser parser(lexer.tokenize());
\* auto ast = parser.parse(); the block keeps the text it was parsed from
Program(src) ==
    [k |-> "BlockStmt", statements |-> parse(tokenize(src).raw).node.statements,
     src |-> src]

\* let s = a template literal of up to MaxParts parts, each the text x or the
\* expression part ${a} or ${b}; a is 1 and b is 2
MaxParts == 3
TextPart == "x"
TemplateParts == {TextPart, "${a}", "${b}"}
TemplateLists == SeqsUpTo(TemplateParts, MaxParts)
RECURSIVE Concat(_)
Concat(strs) == IF Len(strs) = 0 THEN "" ELSE strs[1] \o Concat(Tail(strs))
TemplateSource(parts) ==
    "let a = 1\nlet b = 2\nlet s = " \o BackTick \o Concat(parts) \o BackTick
TemplateProgs == {Program(TemplateSource(parts)) : parts \in TemplateLists}

\* for (let i = n; i; i--) { body }: a countdown from n, its body printing the
\* counter, going on with continue, or both
MaxCount == 2
ForBodies == {"print(i)", "print(i)\n continue", "continue"}
ForSource(n, body) == "for (let i = " \o Digits[n + 1] \o "; i; i--) { " \o body \o " }"
ForProgs == {Program(ForSource(n, body)) : n \in 1..MaxCount, body \in ForBodies}

ProgramSet ==
    ErrorProgs \cup SignalProgs \cup ScenarioDProgs \cup ConstructProgs \cup CallProgs
        \cup ClosureProgs \cup AliasProgs \cup ClassProgs \cup SuperProgs
        \cup MethodProgs \cup PushPopProgs \cup StrProgs \cup AssignProgs
        \cup TemplateProgs \cup ForProgs \cup ConstProgs
        \cup ChainProgs

\* ───────────────────────── the interpreter ─────────────────────────────────

NoOp == [op |-> "none"]

\* Interpreter::Interpreter: globals = make_shared<Environment>(); env = globals;
\* registerNatives()
Init ==
    /\ prog \in ProgramSet
    /\ stack = <<>>
    /\ envs = <<Globals>>
    /\ env = 1
    /\ heap = <<>>
    /\ funcs = <<>>
    /\ mode = Normal
    /\ acc = Nil
    /\ out = <<>>
    /\ log = <<>>
    /\ status = "init"
    /\ eop = NoOp

Next ==
    \/ Run \/ Finish
    \/ ExecBlock \/ LeaveBlock \/ ExecFunctionDecl \/ ExecClassDecl
    \/ ExecOperand \/ Complete \/ PrintStr \/ ExecJump
    \/ ExecIf \/ ExecWhile \/ WhileIter \/ ExecFor \/ ForIter
    \/ ExecTry \/ TryResume
    \/ EvalSimple \/ EvalLambda \/ EvalCall \/ CallReturn
    \/ EvalAssign \/ CompleteAssign
    \/ EvalListComp \/ ListCompNext \/ ListCompResume
    \/ UnwindBlock \/ UnwindTry \/ UnwindLoop \/ UnwindCall \/ UnwindPlain

Spec == Init /\ [][Next]_vars

\* ───────────────────────── Environment on its own ──────────────────────────
\* Environment::define / get / set / has applied to a chain of scopes: the
\* chain is envs, scope i's parent being scope i - 1, and eop records the
\* operation, the chain before it and what it returned or threw.

MaxChain == 2           \* scopes in the chain

Names == {"a", "b"}

\* a scope: each name is absent, defined, or defined and constant
ScopesWith(p) ==
    UNION {{[parent |-> p, vars |-> [x \in D |-> Num(1)], constants |-> C] :
               C \in SUBSET D} : D \in SUBSET Names}

RECURSIVE Chains(_)
Chains(n) ==
    IF n = 0 THEN {<<>>}
    ELSE {Append(c, sc) : c \in Chains(n - 1), sc \in ScopesWith(n - 1)}

InitEnv ==
    /\ envs \in UNION {Chains(n) : n \in 1..MaxChain}
    /\ env = Len(envs)
    /\ eop = NoOp
    /\ status = "env"
    /\ prog = Null /\ stack = <<>> /\ heap = <<>> /\ funcs = <<>>
    /\ mode = Normal /\ acc = Nil /\ out = <<>> /\ log = <<>>

Applied(op, e, name, val, before, res) ==
    [op |-> op, e |-> e, name |-> name, val |-> val, before |-> before, res |-> res]

EnvGet ==
    /\ status = "env" /\ eop = NoOp
    /\ \E e \in DOMAIN envs, name \in Names :
          eop' = Applied("get", e, name, Nil, envs, Environment_get(envs, e, name))
    /\ UNCHANGED <<prog, stack, env, envs, heap, funcs, mode, acc, out, log, status>>

EnvHas ==
    /\ status = "env" /\ eop = NoOp
    /\ \E e \in DOMAIN envs, name \in Names :
          eop' = Applied("has", e, name, Nil, envs, Environment_has(envs, e, name))
    /\ UNCHANGED <<prog, stack, env, envs, heap, funcs, mode, acc, out, log, status>>

EnvSet ==
    /\ status = "env" /\ eop = NoOp
    /\ \E e \in DOMAIN envs, name \in Names :
          LET r == Environment_set(envs, e, name, Num(2))
          IN /\ envs' = r.es
             /\ eop' = Applied("set", e, name, Num(2), envs,
                               [ok |-> r.ok, kind |-> r.kind, msg |-> r.msg])
    /\ UNCHANGED <<prog, stack, env, heap, funcs, mode, acc, out, log, status>>

EnvDefine ==
    /\ status = "env" /\ eop = NoOp
    /\ \E e \in DOMAIN envs, name \in Names, isConst \in BOOLEAN :
          /\ envs' = Environment_define(envs, e, name, Num(2), isConst)
          /\ eop' = Applied("define", e, name, Num(2), envs, isConst)
    /\ UNCHANGED <<prog, stack, env, heap, funcs, mode, acc, out, log, status>>

NextEnv == EnvGet \/ EnvHas \/ EnvSet \/ EnvDefine

SpecEnv == InitEnv /\ [][NextEnv]_vars

\* ───────────────────────── operators on their own ──────────────────────────
\* evalBinary, applyOp, evalIndex and the slice of evaluate applied to
\* operand values: eop records the operation and its operands, acc the value
\* it yields and mode the exception it throws.

\* the values the operands are drawn from and the objects they denote
ExprHeap ==
    <<ArrObj(<<Num(1)>>), ArrObj(<<Num(1)>>), DictObj([x \in {"a"} |-> Num(1)]),
      ClassObj("K", 0, EmptyMap), InstObj(4),
      ClassObj("number", 0, EmptyMap), InstObj(6)>>
ExprFuncs == <<[name |-> "f", params |-> <<>>, body |-> B(<<>>), closure |-> 1]>>
ExprValues ==
    {Nil, Bool(TRUE), Bool(FALSE), Num(0), Num(1), Num(-3), Rat(1, 2), Str(""), Str("a"),
     ArrV(1), ArrV(2), DictV(3), FnV(1), NativeV("TypeError"), InstV(5), InstV(7),
     ClassV(4)}

InitExpr ==
    /\ status = "expr"
    /\ eop = NoOp
    /\ heap = ExprHeap /\ funcs = ExprFuncs
    /\ envs = <<Globals>> /\ env = 1
    /\ prog = Null /\ stack = <<>>
    /\ mode = Normal /\ acc = Nil /\ out = <<>> /\ log = <<>>

Operation(op, lv, rv) == [op |-> op, lv |-> lv, rv |-> rv]

ExprBinary ==
    /\ status = "expr" /\ eop = NoOp
    /\ \E op \in BinaryOps, lv \in ExprValues, rv \in ExprValues :
       \E r \in {evalBinary(heap, funcs, op, lv, rv)} :
          /\ eop' = Operation(op, lv, rv)
          /\ heap' = r.h
          /\ acc' = r.v
          /\ mode' = IF r.ok THEN Normal ELSE Thrown(r.kind, r.msg)
    /\ UNCHANGED <<prog, stack, env, envs, funcs, out, log, status>>

ExprApplyOp ==
    /\ status = "expr" /\ eop = NoOp
    /\ \E op \in {"=", "+=", "-=", "*=", "/="}, old \in ExprValues, val \in ExprValues :
       \E r \in {applyOp(heap, funcs, op, old, val)} :
          /\ eop' = Operation(op, old, val)
          /\ acc' = r.v
          /\ mode' = IF r.ok THEN Normal ELSE Thrown(r.kind, r.msg)
    /\ UNCHANGED <<prog, stack, env, envs, heap, funcs, out, log, status>>

MaxLen == 3             \* elements of the indexed or sliced array or string

Letters == "abcdefgh"
\* the first n letters as a string and as the elements of an array
Word(n) == SubSeq(Letters, 1, n)
Items(n) == [i \in 1..n |-> Str(SubSeq(Letters, i, i))]
Indexed(op, kind, n, idx) == [op |-> op, kind |-> kind, n |-> n, idx |-> idx]

\* evalIndex on a string or an array of n elements and on a dict
ExprIndex ==
    /\ status = "expr" /\ eop = NoOp
    /\ \E kind \in {"string", "array", "dict"}, n \in 0..MaxLen,
          idx \in {Num(i) : i \in (-MaxLen - 2)..(MaxLen + 2)}
                    \cup {Rat(-1, 2), Str("a"), Str("1"), Nil, Bool(TRUE), ArrV(1), InstV(5)} :
       \E obj \in {CASE kind = "string" -> ExprHeap
                     [] kind = "array" -> ExprHeap \o <<ArrObj(Items(n))>>
                     [] OTHER -> ExprHeap \o
                          <<DictObj([x \in {ToString(i) : i \in 1..n} |-> Num(n)])>>} :
       \E r \in {evalIndex(obj, funcs,
                           CASE kind = "string" -> Str(Word(n))
                             [] kind = "array" -> ArrV(Len(obj))
                             [] OTHER -> DictV(Len(obj)), idx)} :
          /\ eop' = Indexed("index", kind, n, idx)
          /\ heap' = r.h
          /\ acc' = r.v
          /\ mode' = IF r.ok THEN Normal ELSE Thrown(r.kind, r.msg)
    /\ UNCHANGED <<prog, stack, env, envs, funcs, out, log, status>>

MaxStep == 2            \* magnitude of a slice's step

SliceBounds == {Null} \cup {Num(i) : i \in (-MaxLen - 2)..(MaxLen + 2)}
SliceSteps == {Null, Str("1")} \cup {Num(i) : i \in (-MaxStep)..MaxStep}
MaxPicked == 5          \* elements a slice may pick: a loop that never ends is cut off here

Sliced(kind, n, startV, stopV, stepV, r) ==
    [op |-> "slice", kind |-> kind, n |-> n, startV |-> startV, stopV |-> stopV,
     stepV |-> stepV, i |-> r[1], stop |-> r[2], step |-> r[3], picked |-> <<>>,
     result |-> IF kind = "string" THEN "" ELSE <<>>, done |-> FALSE]

\* evaluate(SliceExpr) on a string or an array of n elements, up to its loop:
\* i is the loop variable, result the value under construction and picked
\* the indices whose elements were appended to it
ExprSlice ==
    /\ status = "expr" /\ eop = NoOp
    /\ \E kind \in {"string", "array"}, n \in 0..MaxLen,
          startV \in SliceBounds, stopV \in SliceBounds, stepV \in SliceSteps :
       \E r \in {applySlice(heap, funcs, n, startV, stopV, stepV)} :
          IF r.ok
          THEN /\ eop' = Sliced(kind, n, startV, stopV, stepV, r.v)
               /\ UNCHANGED mode
          ELSE /\ eop' = [Sliced(kind, n, startV, stopV, stepV, <<0, 0, 0>>)
                             EXCEPT !.done = TRUE]
               /\ mode' = Thrown(r.kind, r.msg)
    /\ UNCHANGED <<prog, stack, env, envs, heap, funcs, acc, out, log, status>>

\* one test of the slice's for loop: an iteration, which appends element i
\* when 0 <= i < len, or the end of the loop and the value of the expression
SliceLoop ==
    /\ status = "expr" /\ eop.op = "slice" /\ ~eop.done
    /\ Len(eop.picked) < MaxPicked
    /\ IF sliceContinues(eop.i, eop.stop, eop.step)
       THEN /\ eop' = IF eop.i >= 0 /\ eop.i < eop.n
                      THEN [eop EXCEPT !.i = @ + eop.step,
                                       !.picked = Append(@, eop.i),
                                       !.result = IF eop.kind = "string"
                                                  THEN @ \o SubSeq(Word(eop.n), eop.i + 1, eop.i + 1)
                                                  ELSE Append(@, Items(eop.n)[eop.i + 1])]
                      ELSE [eop EXCEPT !.i = @ + eop.step]
            /\ UNCHANGED <<acc, heap>>
       ELSE /\ eop' = [eop EXCEPT !.done = TRUE]
            /\ IF eop.kind = "string"
               THEN acc' = Str(eop.result) /\ UNCHANGED heap
               ELSE acc' = ArrV(Len(heap) + 1) /\ heap' = Append(heap, ArrObj(eop.result))
    /\ UNCHANGED <<prog, stack, env, envs, funcs, mode, out, log, status>>

NextExpr == ExprBinary \/ ExprApplyOp \/ ExprIndex \/ ExprSlice \/ SliceLoop

SpecExpr == InitExpr /\ [][NextExpr]_vars

\* ───────────────────────── the lexer on its own ─────────────────────────────

MaxLines == 3           \* lines of an indented source

\* the lines of the indented sources: nothing, a name or a block header,
\* behind no, two or four spaces
LineTexts == {"", "a", "a:"}
Indents == {"", "  ", "    "}
SourceLines == {ind \o text : ind \in Indents, text \in LineTexts}

RECURSIVE JoinLines(_)
JoinLines(ls) == IF Len(ls) = 1 THEN ls[1] ELSE ls[1] \o "\n" \o JoinLines(Tail(ls))

\* up to MaxLines lines, the last one with or without its newline; and two
\* sources whose block header stands inside brackets
IndentSources ==
    {JoinLines(ls) \o nl : ls \in UNION {[1..n -> SourceLines] : n \in 1..MaxLines},
                           nl \in {"", "\n"}}
        \cup {"(a:\n  a)\n", "a:\n  (a\n)\n"}

\* // behind each kind of token and at the start of the input
SlashPrefixes ==
    {"", "1", "a", "'s'", "true", "False", "nil", "None", "(a)", "[a]", "(", "[", "a+", "a=",
     "a,", "self", "return", "a\n", "a:\n  ", "1 ", "{a}", "a//b", "#a\n", "a/*b*/"}
SlashSources == {pre \o "//" \o post : pre \in SlashPrefixes, post \in {"", "2", "b\nc", "//c"}}

\* a call of f or an array literal of up to MaxArgs arguments or elements:
\* a name, a number, a keyword argument, an assignment written with spaces
ArgTexts == {"a", "1", "b=v", "b = v"}
ArgLists == UNION {[1..n -> ArgTexts] : n \in 1..MaxArgs}
RECURSIVE JoinArgs(_)
JoinArgs(as) ==
    IF Len(as) = 0 THEN ""
    ELSE IF Len(as) = 1 THEN as[1]
    ELSE as[1] \o ", " \o JoinArgs(Tail(as))
CallSource(as) == "f(" \o JoinArgs(as) \o ")"
ArraySource(as) == "[" \o JoinArgs(as) \o "]"
CommaSources == {CallSource(as) : as \in ArgLists} \cup {ArraySource(as) : as \in ArgLists}

\* let f = an arrow function: the parameters in parentheses or one bare name,
\* either arrow, the body an expression or a block
ArrowParams == UNION {[1..n -> {"a", "b"}] : n \in 0..MaxParams}
Arrows == {"=>", "->"}
ArrowBodies == {"a + 1", "{ return a + 1 }"}
ArrowSource(ps, bare, arrow, body) ==
    "let f = " \o (IF bare THEN ps[1] ELSE "(" \o JoinArgs(ps) \o ")")
        \o " " \o arrow \o " " \o body
ArrowSources ==
    {ArrowSource(ps, bare, arrow, body) :
        ps \in ArrowParams, bare \in {FALSE}, arrow \in Arrows, body \in ArrowBodies}
    \cup {ArrowSource(<<x>>, TRUE, "=>", body) : x \in {"a", "b"}, body \in ArrowBodies}

LexSources == IndentSources \cup SlashSources \cup CommaSources \cup ArrowSources

InitLex ==
    /\ status = "lex"
    /\ \E src \in LexSources :
          eop = [op |-> "lex", src |-> src, phase |-> "scan", pos |-> 1, raw |-> <<>>,
                 pass |-> IndentPass(1, <<0>>, 0, <<>>)]
    /\ heap = <<>> /\ funcs = <<>>
    /\ envs = <<Globals>> /\ env = 1
    /\ prog = Null /\ stack = <<>>
    /\ mode = Normal /\ acc = Nil /\ out = <<>> /\ log = <<>>

\* one round of tokenize's while loop
LexScan ==
    /\ status = "lex" /\ eop.phase = "scan" /\ eop.pos <= Len(eop.src)
    /\ \E r \in {scanToken(eop.src, eop.pos, eop.raw)} :
          IF r.ok
          THEN eop' = [eop EXCEPT !.raw = r.raw, !.pos = r.pos] /\ UNCHANGED mode
          ELSE /\ eop' = [eop EXCEPT !.phase = "error"]
               /\ mode' = QuantumError("LexError", r.msg)
    /\ UNCHANGED <<prog, stack, env, envs, heap, funcs, acc, out, log, status>>

\* the end of the source: EOF_TOKEN, and the INDENT/DEDENT pass begins
LexEnd ==
    /\ status = "lex" /\ eop.phase = "scan" /\ eop.pos > Len(eop.src)
    /\ eop' = [eop EXCEPT !.phase = "indent",
                          !.raw = Append(@, Token("EOF_TOKEN", "", lineAt(eop.src, Len(eop.src) + 1)))]
    /\ UNCHANGED <<prog, stack, env, envs, heap, funcs, mode, acc, out, log, status>>

\* one round of the INDENT/DEDENT pass
LexIndent ==
    /\ status = "lex" /\ eop.phase = "indent" /\ eop.pass.i <= Len(eop.raw)
    /\ eop' = [eop EXCEPT !.pass = indentStep(eop.src, eop.raw, eop.pass)]
    /\ UNCHANGED <<prog, stack, env, envs, heap, funcs, mode, acc, out, log, status>>

\* return tokens
LexReturn ==
    /\ status = "lex" /\ eop.phase = "indent" /\ eop.pass.i > Len(eop.raw)
    /\ eop' = [eop EXCEPT !.phase = "done"]
    /\ UNCHANGED <<prog, stack, env, envs, heap, funcs, mode, acc, out, log, status>>

\* a ParseError leaves Parser::parse
ParseFailure(msg) == [t |-> "parseerror", v |-> Nil, kind |-> "ParseError", msg |-> msg]

\* main.cpp: Parser parser(std::move(tokens)); auto ast = parser.parse();
LexParse ==
    /\ status = "lex" /\ eop.phase = "done"
    /\ \E r \in {parse(eop.pass.tokens)} :
          /\ prog' = r.node
          /\ mode' = IF r.ok THEN Normal ELSE ParseFailure(r.msg)
    /\ eop' = [eop EXCEPT !.phase = "parsed"]
    /\ UNCHANGED <<stack, env, envs, heap, funcs, acc, out, log, status>>

NextLex == LexScan \/ LexEnd \/ LexIndent \/ LexReturn \/ LexParse

SpecLex == InitLex /\ [][NextLex]_vars

\* ───────────────────────── properties ──────────────────────────────────────

TryExits == {i \in DOMAIN log : log[i].ev = "try"}
SignalEvents == {i \in DOMAIN log : log[i].ev = "signal"}
TryFrames == {i \in DOMAIN stack : stack[i].k = "try"}
HasFinally(node) == node.finallyBody # Null

\* C1: a try statement with a finally block runs that block (once) whatever
\* way its body was left - normally, by an error a handler took, by an error
\* no handler matched, by a signal - and in the last two cases the statement
\* is left with that same error or signal.
C1_FinallyOnEveryExit ==
    \A i \in TryExits :
        HasFinally(log[i].node) =>
            /\ log[i].fin = 1
            /\ (log[i].bodyExit # Normal /\ log[i].hidx = 0) => log[i].exit = log[i].bodyExit

\* C2: a signal thrown by a try body starts no handler body, whatever the
\* handlers declare; finally (when present) runs once and the statement is
\* left with the same signal.
C2_SignalsNeverHandled ==
    /\ \A i \in TryFrames :
          IsSignal(stack[i].bodyExit) => stack[i].hidx = 0 /\ stack[i].phase = "rethrow"
    /\ \A i \in TryExits :
          IsSignal(log[i].bodyExit) =>
              /\ log[i].hidx = 0
              /\ log[i].fin = (IF HasFinally(log[i].node) THEN 1 ELSE 0)
              /\ log[i].exit = log[i].bodyExit

\* a Break left a try body whose first handler is bare and which has a finally
\* block; finally ran and the Break went on
C2_Witness ==
    \E i \in TryExits :
        /\ log[i].bodyExit = BreakSignal
        /\ log[i].node.handlers # <<>>
        /\ log[i].node.handlers[1].errorType = ""
        /\ log[i].fin = 1
        /\ log[i].exit = BreakSignal

\* C3: a Return is consumed by a function call and by nothing else, the call
\* yielding the carried value; a Break or Continue is consumed by a while/for
\* loop and by nothing else; and the top-level execute() never ends with a
\* signal in flight.
C3_SignalsStopAtBoundary ==
    /\ \A i \in SignalEvents :
          /\ log[i].consumed <=>
                IF log[i].signal.t = "return" THEN log[i].frame = "call"
                ELSE log[i].frame \in {"while", "for"}
          /\ (log[i].consumed /\ log[i].frame = "call" /\ log[i].phase # "ctor")
                => log[i].result = log[i].signal.v
    /\ status = "done" => ~IsSignal(mode)

\* C4: the handler that runs for an error is the first, in declaration order,
\* that is bare or declares the error's kind, Exception or Error (and one
\* runs whenever there is such a handler); when its body starts, its alias
\* is bound to the message string in the handler's own scope.
C4_FirstMatchAliasInHandlerScope ==
    \A i \in TryFrames :
        LET f == stack[i]
            hs == f.node.handlers
            declares(j) == hs[j].errorType \in {"", f.bodyExit.kind, "Exception", "Error"}
        IN (IsError(f.bodyExit) /\ f.phase # "body") =>
              /\ f.hidx = 0 => \A j \in DOMAIN hs : ~declares(j)
              /\ f.hidx > 0 =>
                    /\ declares(f.hidx)
                    /\ \A j \in 1..(f.hidx - 1) : ~declares(j)
                    /\ hs[f.hidx].alias # "" =>
                          /\ hs[f.hidx].alias \in DOMAIN envs[f.scope].vars
                          /\ envs[f.scope].vars[hs[f.hidx].alias] = Str(f.bodyExit.msg)

\* C5: in Scenario D for every exception constructor Name, the error raised
\* by raise Name("bad") has kind Name, and the run prints "Name: bad", then
\* "done", and ends without an error.
C5_RaiseNameCaughtByName ==
    \A name \in ExcNames :
        prog = ScenarioD(name) =>
            /\ \A i \in TryFrames :
                  IsError(stack[i].bodyExit) => stack[i].bodyExit.kind = name
            /\ status = "done" => mode = Normal /\ out = <<name \o ": bad", "done">>

\* does activation f go on executing when m reaches it?
Resumes(f, m) ==
    \/ m = Normal
    \/ f.k = "try" /\ f.phase = "body"
    \/ f.k \in {"while", "for"} /\ loopCatches(f, m)
    \/ f.k = "call" /\ m.t = "return"

\* C6: whenever a block (a plain block, a branch, a loop body, the body of a
\* function, method or constructor), a call or a list comprehension is left
\* and execution resumes in the activation below it - the statement or call
\* site that goes on normally, the loop that consumes a Break/Continue, the
\* call that consumes a Return, the try statement that catches - env is the
\* environment that was current when the construct was entered.
C6_EnvironmentRestored ==
    [][(/\ Running
        /\ Len(stack') = Len(stack) - 1
        /\ Top.k \in {"block", "call", "listcomp"}
        /\ (stack' = <<>> \/ Resumes(stack'[Len(stack')], mode')))
       => env' = Top.entry]_vars

\* an error raised inside a list comprehension (which leaves env pointing at
\* its item scope) has reached the try statement whose handler catches it,
\* and env is the environment the try statement started in
C6_Witness ==
    /\ Running /\ Top.k = "try" /\ Top.phase = "body" /\ IsError(mode)
    /\ \E j \in DOMAIN Top.node.body.statements :
          /\ Top.node.body.statements[j].k = "VarDecl"
          /\ Top.node.body.statements[j].initializer.k = "ListComp"
    /\ env = Top.entry
    /\ \E e \in DOMAIN envs : "i" \in DOMAIN envs[e].vars

\* C7: when the body of an interpreted function starts, env is a scope whose
\* parent is the function's closure and which binds exactly the parameters,
\* the i-th to the i-th argument or to nil when there is none (arguments
\* beyond the parameters bind nothing); the call returns the value of the
\* Return signal that reaches it, and nil when the body ends without one.
C7_CallScopeAndResult ==
    /\ (/\ InNormal /\ Len(stack) >= 2
        /\ Top.k = "block" /\ Top.pc = 1
        /\ stack[Len(stack) - 1].k = "call"
        /\ stack[Len(stack) - 1].phase = "function") =>
          LET c == stack[Len(stack) - 1]
              fn == funcs[c.ref]
          IN /\ envs[env].parent = fn.closure
             /\ DOMAIN envs[env].vars = {fn.params[j] : j \in DOMAIN fn.params}
             /\ \A j \in DOMAIN fn.params :
                   envs[env].vars[fn.params[j]] =
                       IF j <= Len(c.args) THEN c.args[j] ELSE Nil
    /\ \A i \in DOMAIN log :
          (log[i].ev = "call" /\ log[i].phase = "function") => log[i].result = Nil
    /\ \A i \in SignalEvents :
          (log[i].frame = "call" /\ log[i].phase = "function" /\ log[i].signal.t = "return")
              => log[i].consumed /\ log[i].result = log[i].signal.v

\* the body of a two-parameter function called with one argument starts, in
\* a scope that hangs off the closure, which is not the caller's environment
C7_Witness ==
    /\ InNormal /\ Len(stack) >= 2
    /\ Top.k = "block" /\ Top.pc = 1
    /\ stack[Len(stack) - 1].k = "call"
    /\ stack[Len(stack) - 1].phase = "function"
    /\ Len(stack[Len(stack) - 1].args) = 1
    /\ Len(funcs[stack[Len(stack) - 1].ref].params) = 2
    /\ funcs[stack[Len(stack) - 1].ref].closure # stack[Len(stack) - 1].entry
    /\ envs[env].parent = funcs[stack[Len(stack) - 1].ref].closure
    /\ envs[env].vars["p2"] = Nil

RECURSIVE ChainOf(_, _)
\* scope e and its ancestors, nearest first
ChainOf(es, e) == IF e = 0 THEN <<>> ELSE <<e>> \o ChainOf(es, es[e].parent)

\* the positions in the chain whose scope defines the name
DefinedAt(es, e, name) ==
    {i \in DOMAIN ChainOf(es, e) : name \in DOMAIN es[ChainOf(es, e)[i]].vars}
\* the nearest scope that defines the name
Nearest(es, e, name) ==
    ChainOf(es, e)[CHOOSE i \in DefinedAt(es, e, name) :
                      \A j \in DefinedAt(es, e, name) : i <= j]

\* C8: get returns the binding of the nearest scope of the chain that defines
\* the name and fails with NameError when none does; has tells whether one
\* does; set replaces the value in that nearest scope and nothing else, and
\* when the name is constant there it fails with RuntimeError and the chain
\* is as it was.
C8_EnvironmentChain ==
    eop # NoOp =>
        LET before == eop.before
            found == DefinedAt(before, eop.e, eop.name) # {}
            at == Nearest(before, eop.e, eop.name)
        IN /\ eop.op = "get" =>
                 IF found THEN eop.res.ok /\ eop.res.v = before[at].vars[eop.name]
                 ELSE ~eop.res.ok /\ eop.res.kind = "NameError"
           /\ eop.op = "has" => eop.res = found
           /\ (eop.op = "set" /\ found) =>
                 IF eop.name \in before[at].constants
                 THEN ~eop.res.ok /\ eop.res.kind = "RuntimeError" /\ envs = before
                 ELSE /\ eop.res.ok
                      /\ envs = [before EXCEPT ![at].vars[eop.name] = eop.val]

\* set of a name the local scope lacks and the parent holds as a constant
\* has failed, and set of a name only the parent defines has updated the parent
C8_Witness ==
    /\ eop # NoOp /\ eop.op = "set" /\ eop.e = 2
    /\ eop.name \notin DOMAIN eop.before[2].vars
    /\ eop.name \in DOMAIN eop.before[1].vars
    /\ \/ eop.name \in eop.before[1].constants /\ ~eop.res.ok /\ envs = eop.before
       \/ eop.name \notin eop.before[1].constants /\ envs[1].vars[eop.name] = Num(2)

\* C9: the value a closure reads is the current value of the variable in the
\* scope it was created in: k calls of inc make get() and the defining scope
\* both show k (a second counter, made by another call, still shows 0); the
\* closures of different for-in iterations each show their own iteration's
\* variable, and adding 10 through iteration j's other closure changes what
\* iteration j's getter returns and no other.
C9_ClosuresShareScope ==
    status = "done" =>
        /\ \A k \in 0..MaxCalls :
              /\ prog = CounterProg(k) => out = <<ToString(k), ToString(k)>>
              /\ prog = MakerProg(k) => out = <<ToString(k), "0">>
        /\ \A m \in 1..MaxItems : \A j \in -1..(m - 1) :
              prog = LoopProg(m, j) =>
                  out = [i \in 1..m |-> ToString(IF i - 1 = j THEN i + 10 ELSE i)]

\* two loop iterations; the first iteration's variable was raised through
\* its second closure: the getters return 11 and 2
C9_Witness ==
    /\ status = "done" /\ MaxItems >= 2 /\ prog = LoopProg(2, 0)
    /\ out = <<"11", "2">>
    /\ \E f, g \in DOMAIN funcs : f # g /\ funcs[f].closure = funcs[g].closure

\* C10: in the aliasing programs every holder of a's value (b, the parameter
\* p, the element or field of c) denotes a's backing store, no store of that
\* kind exists besides a's (and c's when c is of the same kind), and in the
\* end a shows the mutation made through the other holder.
C10_SharedBackingStore ==
    \A kind \in Kinds : \A mut \in Mutations(kind), via \in Holders :
        prog = AliasProg(kind, mut, via) =>
            /\ \A e \in DOMAIN envs : \A name \in {"b", "p"} \cap DOMAIN envs[e].vars :
                  envs[e].vars[name] \in {Nil, envs[2].vars["a"]}
            /\ \A r \in DOMAIN heap :
                  /\ \A j \in DOMAIN heap[r].a :
                        heap[r].a[j].t = kind => heap[r].a[j] = envs[2].vars["a"]
                  /\ "x" \in DOMAIN heap[r].d => heap[r].d["x"] = envs[2].vars["a"]
            /\ Cardinality({r \in DOMAIN heap : heap[r].t = kind}) <=
                  IF (kind = "array" /\ via = "element") \/ (kind = "dict" /\ via = "field")
                  THEN 2 ELSE 1
            /\ status = "done" => out = <<Shown(kind, mut)>>

\* a function pushed onto its parameter and the caller's array shows it
C10_Witness ==
    /\ status = "done" /\ prog = AliasProg("array", "push", "param")
    /\ out = <<"[1, 2]">>
    /\ heap[envs[2].vars["a"].n].a = <<Num(1), Num(2)>>

RECURSIVE ClassChain(_, _)
\* class k and its bases, nearest first
ClassChain(h, k) == IF k = 0 THEN <<>> ELSE <<k>> \o ClassChain(h, h[k].k)

\* the classes of the chain, from position from on, that define the method
Definers(h, k, name, from) ==
    {i \in from..Len(ClassChain(h, k)) : name \in DOMAIN h[ClassChain(h, k)[i]].d}
\* the definition of the first of them
FirstDefinition(h, k, name, from) ==
    h[ClassChain(h, k)[CHOOSE i \in Definers(h, k, name, from) :
                          \A j \in Definers(h, k, name, from) : i <= j]].d[name]

\* the fields the construction B(1, .., na) leaves on the instance
CtorFields(ia, ib, na) ==
    LET arg(i) == IF i <= na THEN Num(i) ELSE Nil
    IN IF ib THEN [f \in {"y"} |-> arg(1)]
       ELSE IF ia THEN [f \in {"x", "z"} |-> IF f = "x" THEN arg(1) ELSE arg(2)]
       ELSE EmptyMap

\* C11: calling a class yields a fresh instance of that class whatever the
\* constructor returns; the constructor that runs is the first init found
\* walking from the class up its base chain, in a scope that hangs off that
\* function's closure, with self and this bound to the instance and the
\* parameters after a leading self/this bound to the arguments in order (nil
\* when there is none); a subclass without init ends with the fields the
\* inherited init sets, and with no init anywhere the instance has no fields.
C11_ClassCallConstructs ==
    /\ (/\ InNormal /\ Len(stack) >= 2
        /\ Top.k = "block" /\ Top.pc = 1
        /\ stack[Len(stack) - 1].k = "call"
        /\ stack[Len(stack) - 1].phase = "ctor") =>
          LET c == stack[Len(stack) - 1]
              fn == funcs[c.ref]
              klass == heap[c.inst.n].k
              start == IF fn.params # <<>> /\ fn.params[1] \in {"self", "this"} THEN 1 ELSE 0
          IN /\ c.inst.t = "instance" /\ heap[c.inst.n].d = EmptyMap
             /\ FnV(c.ref) = FirstDefinition(heap, klass, "init", 1)
             /\ envs[env].parent = fn.closure
             /\ envs[env].vars["self"] = c.inst /\ envs[env].vars["this"] = c.inst
             /\ \A j \in (start + 1)..Len(fn.params) :
                   envs[env].vars[fn.params[j]] =
                       IF j - start <= Len(c.args) THEN c.args[j - start] ELSE Nil
    /\ \A i \in DOMAIN log :
          (log[i].ev = "call" /\ log[i].phase = "ctor") => log[i].result.t = "instance"
    /\ \A i \in SignalEvents :
          (log[i].frame = "call" /\ log[i].phase = "ctor" /\ log[i].signal.t = "return")
              => log[i].consumed /\ log[i].result.t = "instance"
    /\ \A ia \in BOOLEAN, ib \in BOOLEAN, lead \in Leads, na \in 0..MaxParams,
         ret \in BOOLEAN :
          (prog = ClassProg(ia, ib, lead, na, ret) /\ status = "done") =>
              LET o == envs[2].vars["o"]
                  o2 == envs[2].vars["o2"]
                  mark == IF ib THEN <<"B">> ELSE IF ia THEN <<"A">> ELSE <<>>
              IN /\ o.t = "instance" /\ o2.t = "instance" /\ o.n # o2.n
                 /\ heap[heap[o.n].k].name = "B" /\ heap[heap[o2.n].k].name = "B"
                 /\ heap[o.n].d = CtorFields(ia, ib, na)
                 /\ heap[o2.n].d = CtorFields(ia, ib, na)
                 /\ out = mark \o mark \o <<"<instance:B>">>

\* B has no init and A's init(this, p, q) ends in return 5: B(1) ran A's init
\* and is an instance of B with x = 1 and z = nil
C11_Witness ==
    /\ status = "done" /\ prog = ClassProg(TRUE, FALSE, <<"this">>, 1, TRUE)
    /\ envs[2].vars["o"].t = "instance"
    /\ heap[envs[2].vars["o"].n].d = [f \in {"x", "z"} |-> IF f = "x" THEN Num(1) ELSE Nil]
    /\ \E i \in SignalEvents :
          log[i].frame = "call" /\ log[i].phase = "ctor" /\ log[i].signal = ReturnSignal(Num(5))

\* C12: a super call runs, on the self of the calling method, the definition
\* found first walking up from the base of that instance's class: init for
\* super(...), the named method for super.method(...); without a base class
\* it raises RuntimeError, as does super.method when no base defines the
\* method, and super() is nil when no base defines init.
C12_SuperStartsAtBase ==
    /\ (/\ InNormal /\ Len(stack) >= 2
        /\ Top.k = "block" /\ Top.pc = 1
        /\ stack[Len(stack) - 1].k = "call"
        /\ stack[Len(stack) - 1].node.k = "CallExpr"
        /\ stack[Len(stack) - 1].node.callee.k = "SuperExpr") =>
          LET c == stack[Len(stack) - 1]
              name == IF c.node.callee.method = "" THEN "init" ELSE c.node.callee.method
          IN /\ c.inst = Environment_get(envs, c.entry, "self").v
             /\ envs[env].vars["self"] = c.inst
             /\ Len(ClassChain(heap, heap[c.inst.n].k)) >= 2
             /\ FnV(c.ref) = FirstDefinition(heap, heap[c.inst.n].k, name, 2)
    /\ \A kind \in {"init", "m"}, da \in BOOLEAN, db \in BOOLEAN, based \in BOOLEAN :
          (prog = SuperProg(kind, da, db, based) /\ status = "done") =>
              IF ~based
              THEN /\ out = <<"C">>
                   /\ mode = QuantumError("RuntimeError",
                                 IF kind = "init" THEN "No parent class for super() call"
                                 ELSE "No parent class for super call")
              ELSE IF da \/ db
              THEN /\ mode = Normal
                   /\ out = <<"C", IF db THEN "B" ELSE "A", IF db THEN "rB" ELSE "rA">>
                   /\ heap[envs[2].vars["o"].n].d = [x \in {"f"} |-> Num(7)]
              ELSE IF kind = "init"
              THEN /\ mode = Normal /\ out = <<"C", "nil">>
                   /\ heap[envs[2].vars["o"].n].d = EmptyMap
              ELSE /\ out = <<"C">>
                   /\ mode = QuantumError("RuntimeError",
                                          "Method 'm' not found in parent class")

\* C's m called super.m(7) on an instance of C; B defines no m and A does:
\* A's m ran on that instance and set its field
C12_Witness ==
    /\ status = "done" /\ prog = SuperProg("m", TRUE, FALSE, TRUE)
    /\ out = <<"C", "A", "rA">>
    /\ heap[envs[2].vars["o"].n].d = [x \in {"f"} |-> Num(7)]
    /\ heap[heap[envs[2].vars["o"].n].k].name = "C"

\* C13: a method call on an instance runs the definition of the first class,
\* walking from the instance's class up its base chain, that defines the
\* name, on that instance: a subclass's definition wins over its bases' and
\* an inherited one is found when the subclass has none; when no class of
\* the chain defines it a callable field of that name is called, and when
\* there is none either the call raises TypeError.
C13_MethodResolution ==
    /\ (/\ InNormal /\ Len(stack) >= 2
        /\ Top.k = "block" /\ Top.pc = 1
        /\ stack[Len(stack) - 1].k = "call"
        /\ stack[Len(stack) - 1].phase = "method"
        /\ stack[Len(stack) - 1].node.k = "CallExpr"
        /\ stack[Len(stack) - 1].node.callee.k = "MemberExpr") =>
          LET c == stack[Len(stack) - 1]
          IN /\ c.inst = Environment_get(envs, c.entry, c.node.callee.object.name).v
             /\ envs[env].vars["self"] = c.inst
             /\ FnV(c.ref) =
                   FirstDefinition(heap, heap[c.inst.n].k, c.node.callee.member, 1)
    /\ \A da \in BOOLEAN, db \in BOOLEAN, dc \in BOOLEAN, field \in {"none", "fn", "num"} :
          (prog = MethodProg(da, db, dc, field) /\ status = "done") =>
              IF dc THEN mode = Normal /\ out = <<"C", "rC">>
              ELSE IF db THEN mode = Normal /\ out = <<"B", "rB">>
              ELSE IF da THEN mode = Normal /\ out = <<"A", "rA">>
              ELSE IF field = "fn" THEN mode = Normal /\ out = <<"g", "nil">>
              ELSE /\ out = <<>>
                   /\ mode = QuantumError("TypeError", "No method 'm' on instance of C")

\* A and B define m and C does not: o.m() on an instance of C ran B's m
C13_Witness ==
    /\ status = "done" /\ prog = MethodProg(TRUE, TRUE, FALSE, "fn")
    /\ out = <<"B", "rB">>
    /\ heap[heap[envs[2].vars["o"].n].k].name = "C"

\* C14: /, // and % (and the compound /=) applied to a divisor that is the
\* number 0 raise RuntimeError whatever the left operand is.
C14_ZeroDivisorRaises ==
    (status = "expr" /\ eop.op \in {"/", "//", "%", "/="} /\ eop.rv = Num(0)) =>
        mode.t = "error" /\ mode.kind = "RuntimeError"

\* "a" // 0 raised Division by zero although "a" is no number
C14_Witness ==
    /\ status = "expr" /\ eop = Operation("//", Str("a"), Num(0))
    /\ mode = QuantumError("RuntimeError", "Division by zero")

\* C15: == raises for no pair of operands: nil == nil is true, operands of
\* different kinds compare false, numbers, bools and strings compare by
\* value, and arrays, dicts, functions, classes and instances compare false,
\* also with themselves.
C15_EqualityNeverRaises ==
    (status = "expr" /\ eop.op = "==") =>
        /\ mode = Normal
        /\ acc = Bool(IF eop.lv.t = "nil" /\ eop.rv.t = "nil" THEN TRUE
                      ELSE IF eop.lv.t # eop.rv.t THEN FALSE
                      ELSE IF eop.lv.t \in {"number", "bool", "string"}
                      THEN eop.lv = eop.rv
                      ELSE FALSE)

\* C16: indexing an array or a string of n elements with an integer i yields
\* element i + n when -n <= i < 0 and element i when 0 <= i < n, and raises
\* IndexError for any other i; indexing a dict raises nothing and yields nil
\* when the stringified index is none of its keys.
C16_IndexInRangeOrIndexError ==
    (status = "expr" /\ eop.op = "index") =>
        LET n == eop.n
            i == eop.idx.n
            at(j) == Str(SubSeq(Letters, j + 1, j + 1))
        IN /\ (eop.kind \in {"array", "string"} /\ eop.idx.t = "number" /\ den(eop.idx) = 1) =>
                 IF -n <= i /\ i < 0 THEN mode = Normal /\ acc = at(i + n)
                 ELSE IF 0 <= i /\ i < n THEN mode = Normal /\ acc = at(i)
                 ELSE mode.t = "error" /\ mode.kind = "IndexError"
           /\ eop.kind = "dict" =>
                 /\ mode = Normal
                 /\ toString(heap, funcs, eop.idx) \notin {ToString(j) : j \in 1..n}
                        => acc = Nil

\* "abc"[-1] is "c"
C16_Witness ==
    /\ status = "expr" /\ MaxLen >= 3
    /\ eop = Indexed("index", "string", 3, Num(-1))
    /\ mode = Normal /\ acc = Str("c")

\* the indices Python's slice semantics select from n elements
PyStep(stepV) == IF stepV = Null THEN 1 ELSE stepV.n
PyClamp(v, lo, hi) == IF v < lo THEN lo ELSE IF v > hi THEN hi ELSE v
PyBound(n, v, step, default) ==
    IF v = Null THEN default
    ELSE PyClamp(IF v.n < 0 THEN v.n + n ELSE v.n,
                 IF step > 0 THEN 0 ELSE -1, IF step > 0 THEN n ELSE n - 1)
PySlice(n, startV, stopV, stepV) ==
    LET step == PyStep(stepV)
        start == PyBound(n, startV, step, IF step > 0 THEN 0 ELSE n - 1)
        stop == PyBound(n, stopV, step, IF step > 0 THEN n ELSE -1)
        count == IF step > 0
                 THEN (IF stop > start THEN (stop - start + step - 1) \div step ELSE 0)
                 ELSE (IF start > stop THEN (start - stop - step - 1) \div (-step) ELSE 0)
    IN [k \in 1..count |-> start + (k - 1) * step]

\* C17: a slice of an array or string of n elements, with start and stop
\* omitted or any integers and a non-zero integer step, raises nothing and
\* selects exactly the elements Python's slice selects, in that order.
C17_SliceAsPython ==
    (/\ status = "expr" /\ eop.op = "slice" /\ eop.done
     /\ (eop.stepV = Null \/ (eop.stepV.t = "number" /\ eop.stepV.n # 0))) =>
        /\ mode = Normal
        /\ eop.picked = PySlice(eop.n, eop.startV, eop.stopV, eop.stepV)
        /\ eop.kind = "string" =>
              /\ acc.t = "string" /\ Len(acc.s) = Len(eop.picked)
              /\ \A k \in DOMAIN eop.picked :
                    SubSeq(acc.s, k, k) = SubSeq(Letters, eop.picked[k] + 1, eop.picked[k] + 1)
        /\ eop.kind = "array" =>
              /\ acc.t = "array"
              /\ heap[acc.n].a = [k \in DOMAIN eop.picked |->
                                     Str(SubSeq(Letters, eop.picked[k] + 1, eop.picked[k] + 1))]

C19_StrMethodHonoured ==
    \A ds \in BOOLEAN, how \in Stringifiers :
        (prog = StrProg(ds, how) /\ status = "done") =>
            /\ mode = Normal
            /\ \E shown \in {IF ds THEN "custom" ELSE "<instance:B>"} :
                  out = <<CASE how = "concat" -> "s:" \o shown
                            [] how = "array" -> "[" \o shown \o "]"
                            [] OTHER -> shown>>

\* a scope that has no binding of the name gets none
NoNewBinding(name) ==
    \A i \in DOMAIN envs : name \notin DOMAIN envs[i].vars => name \notin DOMAIN envs'[i].vars

\* C20: an assignment to a name completes as follows.  The name defined in
\* no scope of the chain: plain = defines it in the current scope and nowhere
\* else; a compound assignment (+=, -=, *=, /=, and ++/-- which are += 1 and
\* -= 1) raises NameError and no scope gets a binding.  The name defined in
\* the chain: plain = creates no binding; it stores the value in the nearest
\* scope that defines the name (a constant binding refuses with RuntimeError
\* and keeps its value).
C20_AssignDefinesOrUpdates ==
    [][(/\ Len(stack) > 0 /\ InNormal
        /\ Top.k = "await" /\ Top.node.k = "AssignExpr"
        /\ Top.node.target.k = "Identifier") =>
            LET x == Top.node.target.name
                op == Top.node.op
            IN IF DefinedAt(envs, env, x) = {}
               THEN IF op = "="
                    THEN /\ mode' = Normal
                         /\ x \in DOMAIN envs'[env].vars
                         /\ envs'[env].vars[x] = acc
                         /\ \A i \in DOMAIN envs \ {env} : envs'[i] = envs[i]
                    ELSE /\ mode' = QuantumError("NameError", "Undefined variable: '" \o x \o "'")
                         /\ envs' = envs
               ELSE op = "=" =>
                    /\ NoNewBinding(x)
                    /\ \E d \in {Nearest(envs, env, x)} :
                          IF x \in envs[d].constants
                          THEN /\ envs' = envs
                               /\ mode' = QuantumError("RuntimeError",
                                              "Cannot reassign constant '" \o x \o "'")
                          ELSE /\ mode' = Normal
                               /\ envs' = [envs EXCEPT ![d].vars[x] = acc]]_vars

\* x = 1 inside a nested block with x defined nowhere has just defined x in
\* the block's scope and not in the enclosing one
C20_Witness ==
    /\ prog = AssignProg("none", "=", "block", 1)
    /\ env > 2 /\ "x" \in DOMAIN envs[env].vars
    /\ "x" \notin DOMAIN envs[envs[env].parent].vars

\* the tokens of one type among toks
CountTokens(toks, type) == Cardinality({i \in DOMAIN toks : toks[i].type = type})

\* C21: the token stream tokenize returns holds as many DEDENT tokens as
\* INDENT tokens, and the indent stack is back at [0], for every source -
\* ending with a newline or not.
C21_DedentsMatchIndents ==
    (status = "lex" /\ eop.phase = "done") =>
        /\ CountTokens(eop.pass.tokens, "DEDENT") = CountTokens(eop.pass.tokens, "INDENT")
        /\ eop.pass.indentStack = <<0>>

C24_CommaSeparatesArguments ==
    \A as \in ArgLists :
        (eop.op = "lex" /\ eop.phase = "parsed"
         /\ eop.src \in {CallSource(as), ArraySource(as)}) =>
            /\ mode = Normal
            /\ prog.statements[1].k = "ExprStmt"
            /\ \E e \in {prog.statements[1].expr} :
               \E items \in {IF e.k = "CallExpr" THEN e.args ELSE e.elements} :
                  /\ Len(items) = Len(as)
                  /\ \A i \in DOMAIN items :
                        /\ items[i].k = "AssignExpr" => items[i].op # "unpack"
                        /\ e.k = "CallExpr" => items[i].k # "AssignExpr"

\* C25: (params) => body, (params) -> body and a bare x => body each parse
\* to a function expression of exactly those parameters; its body is the
\* block, or the expression wrapped in a return statement.
C25_ArrowFunctionParsed ==
    \A ps \in ArrowParams, bare \in BOOLEAN, arrow \in Arrows, body \in ArrowBodies :
        ((bare => Len(ps) = 1 /\ arrow = "=>")
         /\ eop.op = "lex" /\ eop.phase = "parsed"
         /\ eop.src = ArrowSource(ps, bare, arrow, body)) =>
            /\ mode = Normal
            /\ prog.statements =
                 <<VarDecl(FALSE, "f",
                           LambdaExpr(ps, BlockStmt(<<ReturnStmt(
                               BinaryExpr("+", Id("a"), Lit(Num(1))))>>)))>>

\* the text a template literal denotes: its text parts and the stringified
\* values of its expression parts, in order
TemplateText(parts) ==
    Concat([i \in DOMAIN parts |->
                CASE parts[i] = "${a}" -> toString(<<>>, <<>>, Num(1))
                  [] parts[i] = "${b}" -> toString(<<>>, <<>>, Num(2))
                  [] OTHER -> parts[i]])

\* C22: evaluating a template literal yields the string formed by its text
\* parts and the stringified values of its expression parts, in order - for
\* the empty template the empty string, and a string also when every part is
\* an expression part.
C22_TemplateYieldsString ==
    \A parts \in TemplateLists :
        (status = "done" /\ "src" \in DOMAIN prog /\ prog.src = TemplateSource(parts)) =>
            /\ mode = Normal
            /\ envs[2].vars["s"] = Str(TemplateText(parts))

\* the executions of a for program's loop body so far: execBlock makes one
\* environment for each, behind the global one, the program's and the for
\* statement's own
BodyRuns == Len(envs) - 3

\* C29: in for (let i = n; i; i--) the post expression runs after every
\* iteration, one ended by continue included: the k-th iteration's body sees
\* the counter at n - k + 1, so the body runs n times at most and a body that
\* prints the counter prints n, n - 1, ..., 1.
C29_PostRunsAfterContinue ==
    \A n \in 1..MaxCount, body \in ForBodies :
        ("src" \in DOMAIN prog /\ prog.src = ForSource(n, body)) =>
            /\ mode \in {Normal, ContinueSignal}
            /\ \A k \in DOMAIN out : k <= n /\ out[k] = toString(<<>>, <<>>, Num(n - k + 1))
            /\ BodyRuns <= n

\* the try statements that were left while the body of a matching handler was
\* running, i.e. left by what that handler body threw
HandlerExits ==
    {i \in TryExits : log[i].phase = "handler" /\ log[i].hidx # 0 /\ log[i].exit # Normal}

\* C26: when the body of the matching handler exits abnormally (a new error, or
\* a Return, Break or Continue signal), the finally block of the try statement
\* has still run exactly once by the time the statement is left.
C26_FinallyAfterHandlerExit ==
    \A i \in HandlerExits : HasFinally(log[i].node) => log[i].fin = 1


\* the names scope e holds as constants
ConstantsOf(es, e) == es[e].constants

\* C27: once a name is a constant of a scope, no step of the program (an
\* assignment, a redeclaration, a function declaration, an unpacking or an
\* except alias) changes the value that scope binds to the name.
C27_ConstantNeverChanges ==
    [][\A e \in DOMAIN envs : \A name \in ConstantsOf(envs, e) :
          envs'[e].vars[name] = envs[e].vars[name]]_vars


\* what the inits of a chain of n classes print when each runs once, from the
\* instance's class up to the root
ChainMarks(n) == [i \in 1..n |-> ClassNames[n - i + 1]]
IsPrefix(a, b) == Len(a) <= Len(b) /\ \A i \in DOMAIN a : a[i] = b[i]

\* C28: constructing an instance of the last class of a chain of classes whose
\* inits all call super() runs each class's init once, from the instance's
\* class up to the root, and the construction ends normally.
C28_EachInitOnce ==
    \A n \in 1..MaxClasses :
        prog = ChainProg(n) =>
            /\ IsPrefix(out, ChainMarks(n))
            /\ status = "done" => mode = Normal /\ out = ChainMarks(n)


\* C30: the loop of a slice ends for every integer step, 0 included: whenever
\* its test lets an iteration run, that iteration leaves the loop variable
\* nearer to stop than it was.
C30_SliceLoopEnds ==
    (/\ status = "expr" /\ eop.op = "slice" /\ ~eop.done
     /\ sliceContinues(eop.i, eop.stop, eop.step)) =>
        sliceRemaining(eop.i + eop.step, eop.stop, eop.step)
            < sliceRemaining(eop.i, eop.stop, eop.step)

====
